---- MODULE Spec2Model ----
(***************************************************************************)
(* AWS SigV4 request verification (scratchstack/signature/src/signature.rs) *)
(* as a state machine, followed by the policy parser (scratchstack_aspen), *)
(* the credential resolver (scratchstack-get-signing-key-direct) and the   *)
(* TLS acceptor (services/iam/src/tls.rs), each a state machine of its own *)
(* over its own variables.                                                 *)
(* A string or byte vector of the program is a                             *)
(* sequence of one-character strings; the byte 0xFF, which no UTF-8 text   *)
(* contains, is the element BYTE_FF.  A Result is a record: Ok(v) is       *)
(* [ok |-> TRUE, val |-> v], Err(e) is [ok |-> FALSE, kind, detail], and a *)
(* panic (unwrap, index or slice out of range) is an Err record of kind    *)
(* "Panic": it propagates like an error and ends the call.                 *)
(***************************************************************************)
EXTENDS Integers, Sequences, FiniteSets, TLC

VARIABLES
    request,           \* the Request under verification
    server_timestamp,  \* verify_at's server_timestamp, seconds since the epoch
    allowed_mismatch,  \* verify_at's allowed_mismatch, an Option<Duration>
    store_secret,      \* the secret key the credential store holds for the known access key
    pc,                \* verify_at's position
    resolver_calls,    \* the calls secret_key_fn has received, in order
    access_key,        \* get_expected_signature's local access_key
    session_token,     \* get_expected_signature's local session_token
    secret_key,        \* get_expected_signature's local secret_key
    expected_sig,      \* verify_at's local expected_sig
    verify_result,     \* verify_at's return value, None until it returns
    ret,               \* the last direct call of an operation and what it returned
    document,          \* the JSON document given to Policy::from_str
    policy,            \* what Policy::from_str returned, None before the call
    policy_str,        \* what to_string of the parsed Policy wrote, None before the call
    req_access_key,    \* GetSigningKeyRequest.access_key of the call of the resolver
    iam_user_credential, \* the rows of the table iam_user_credential
    call_pc,           \* the position of the future of GetSigningKeyFromDatabase::call
    db,                \* call's local db: the pooled connection, None before pool.get()
    call_result,       \* what the future of call returned, None until it returns
    tls_stream_accept, \* TlsIncoming.tls_stream_accept
    handshakes,        \* the TLS handshake futures created so far and their state
    poll_log           \* what each poll_accept polled and returned, in order

\* The variables of the signature verifier, of the policy parser, of the
\* credential resolver and of the TLS acceptor.
sigv4_vars == <<request, server_timestamp, allowed_mismatch, store_secret, pc, resolver_calls,
                access_key, session_token, secret_key, expected_sig, verify_result, ret>>
aspen_vars == <<document, policy, policy_str>>
resolver_vars == <<req_access_key, iam_user_credential, call_pc, db, call_result>>
tls_vars == <<tls_stream_accept, handshakes, poll_log>>

vars == <<sigv4_vars, aspen_vars, resolver_vars, tls_vars>>

\* Option<T>: None is the empty sequence and Some(x) the sequence of x alone.
None == <<>>
Some(x) == <<x>>

\* No policy is being parsed, no signing key asked for, no connection
\* accepted: the state of the parts a specification leaves alone.
AspenIdle == document = None /\ policy = None /\ policy_str = None
ResolverIdle ==
    /\ req_access_key = None
    /\ iam_user_credential = {}
    /\ call_pc = "idle"
    /\ db = None
    /\ call_result = None
TlsIdle == tls_stream_accept = None /\ handshakes = <<>> /\ poll_log = <<>>

(***************************************************************************)
(* Bytes and characters                                                    *)
(***************************************************************************)
\* The printable ASCII characters in code order: Ascii[i] has code 31 + i
\* (the double quote, the backslash and the backtick are written as words).
Ascii ==
  <<
    " ", "!", "<QUOTE>", "#", "$", "%", "&", "'", "(", ")", "*", "+", ",", "-", ".", "/",
    "0", "1", "2", "3", "4", "5", "6", "7", "8", "9", ":", ";", "<", "=", ">", "?",
    "@", "A", "B", "C", "D", "E", "F", "G", "H", "I", "J", "K", "L", "M", "N", "O",
    "P", "Q", "R", "S", "T", "U", "V", "W", "X", "Y", "Z", "[", "<BACKSLASH>", "]", "^", "_",
    "<BACKTICK>", "a", "b", "c", "d", "e", "f", "g", "h", "i", "j", "k", "l", "m", "n", "o",
    "p", "q", "r", "s", "t", "u", "v", "w", "x", "y", "z", "{", "|", "}", "~"
  >>

\* A byte that is not part of any UTF-8 text.
BYTE_FF == "<FF>"

\* The line feed b'\n'.
LF == "<LF>"

Range(s) == {s[i] : i \in DOMAIN s}

OrdTable ==
    [c \in Range(Ascii) \cup {BYTE_FF, LF} |->
        IF c = BYTE_FF THEN 255
        ELSE IF c = LF THEN 10
        ELSE 31 + (CHOOSE i \in DOMAIN Ascii : Ascii[i] = c)]

\* The byte value of a character (str::as_bytes).
Ord(c) == OrdTable[c]

\* The character of a printable byte value.
Chr(n) == Ascii[n - 31]

as_bytes(s) == [i \in DOMAIN s |-> Ord(s[i])]

\* std::str::from_utf8 succeeds.
IsUtf8(bytes) == \A i \in DOMAIN bytes : bytes[i] # BYTE_FF

IsDigit(c) == Ord(c) >= 48 /\ Ord(c) <= 57
IsUpper(c) == Ord(c) >= 65 /\ Ord(c) <= 90
IsLower(c) == Ord(c) >= 97 /\ Ord(c) <= 122

\* u8::is_ascii_alphanumeric
is_ascii_alphanumeric(c) == IsDigit(c) \/ IsUpper(c) \/ IsLower(c)

\* char::is_whitespace on the characters of the model (str::trim).
IsWhitespace(c) == c = " "

ToLowerChar(c) == IF IsUpper(c) THEN Chr(Ord(c) + 32) ELSE c

\* str::to_lowercase
to_lowercase(s) == [i \in DOMAIN s |-> ToLowerChar(s[i])]

DigitVal(c) == Ord(c) - 48

HexDigitsUpper == <<"0", "1", "2", "3", "4", "5", "6", "7", "8", "9", "A", "B", "C", "D", "E", "F">>
HexDigitsLower == <<"0", "1", "2", "3", "4", "5", "6", "7", "8", "9", "a", "b", "c", "d", "e", "f">>

IsHexDigit(c) == c \in Range(HexDigitsUpper) \cup Range(HexDigitsLower)

HexVal(c) ==
    IF IsDigit(c) THEN Ord(c) - 48
    ELSE IF IsUpper(c) THEN Ord(c) - 55
    ELSE Ord(c) - 87

\* format!("%{:02X}", c)
PercentEncode(n) == <<"%", HexDigitsUpper[(n \div 16) + 1], HexDigitsUpper[(n % 16) + 1]>>

RECURSIVE Flatten(_)
Flatten(ss) == IF ss = <<>> THEN <<>> ELSE Head(ss) \o Flatten(Tail(ss))

\* hex::encode: two lower-case digits per byte.
hex_encode(bytes) ==
    Flatten([i \in DOMAIN bytes |->
        <<HexDigitsLower[(bytes[i] \div 16) + 1], HexDigitsLower[(bytes[i] % 16) + 1]>>])

\* Byte-wise order of two strings (Ord for String / Vec<u8>): s < t.
StrLess(s, t) ==
    LET n == IF Len(s) < Len(t) THEN Len(s) ELSE Len(t)
        diff == {i \in 1..n : s[i] # t[i]}
    IN
    IF diff = {} THEN Len(s) < Len(t)
    ELSE LET k == CHOOSE i \in diff : \A j \in diff : i <= j IN Ord(s[k]) < Ord(t[k])

\* Stable insertion of x into the sorted sequence ss, after its equals.
RECURSIVE InsertSorted(_, _)
InsertSorted(x, ss) ==
    IF ss = <<>> THEN <<x>>
    ELSE IF StrLess(x, Head(ss)) THEN <<x>> \o ss
    ELSE <<Head(ss)>> \o InsertSorted(x, Tail(ss))

\* sort_unstable on strings: equal strings are indistinguishable.
RECURSIVE SortStrings(_)
SortStrings(ss) ==
    IF ss = <<>> THEN <<>>
    ELSE InsertSorted(ss[Len(ss)], SortStrings(SubSeq(ss, 1, Len(ss) - 1)))

\* The positions of s that hold the character c, ascending.
Positions(s, c) == SelectSeq([i \in 1..Len(s) |-> i], LAMBDA i : s[i] = c)

\* str::split(sep) for a one-character separator: always at least one part.
split(s, sep) ==
    LET cut == <<0>> \o Positions(s, sep) \o <<Len(s) + 1>> IN
    [k \in 1..(Len(cut) - 1) |-> SubSeq(s, cut[k] + 1, cut[k + 1] - 1)]

\* str::splitn(2, sep): one part when sep does not occur, else two.
splitn2(s, sep) ==
    LET at == Positions(s, sep) IN
    IF at = <<>> THEN <<s>>
    ELSE <<SubSeq(s, 1, at[1] - 1), SubSeq(s, at[1] + 1, Len(s))>>

RECURSIVE trim_start(_)
trim_start(s) ==
    IF s # <<>> /\ IsWhitespace(Head(s)) THEN trim_start(Tail(s)) ELSE s

RECURSIVE trim_end(_)
trim_end(s) ==
    IF s # <<>> /\ IsWhitespace(s[Len(s)]) THEN trim_end(SubSeq(s, 1, Len(s) - 1)) ELSE s

trim(s) == trim_end(trim_start(s))

\* slice.join(sep)
RECURSIVE join(_, _)
join(ss, sep) ==
    IF ss = <<>> THEN <<>>
    ELSE IF Len(ss) = 1 THEN ss[1]
    ELSE ss[1] \o sep \o join(Tail(ss), sep)

\* The string left as it is: no run is collapsed.
KeepRuns(s, c) == s

\* Regex::replace_all of every run of two or more c by a single c: of a
\* run, only its first character stays.
CollapseRuns(s, c) ==
    LET keep == SelectSeq([i \in 1..Len(s) |-> i],
                          LAMBDA i : ~(s[i] = c /\ i > 1 /\ s[i - 1] = c))
    IN [k \in 1..Len(keep) |-> s[keep[k]]]

\* needle occurs in hay as a contiguous run (str::contains).
Contains(hay, needle) ==
    \E i \in 1..(Len(hay) - Len(needle) + 1) :
        SubSeq(hay, i, i + Len(needle) - 1) = needle

Ok(v) == [ok |-> TRUE, val |-> v]
Err(k, d) == [ok |-> FALSE, kind |-> k, detail |-> d]
Panic(d) == Err("Panic", d)

\* The ? operator: an Err is returned as it is, the value of an Ok goes on to F.
Try(r, F(_)) == IF r.ok THEN F(r.val) ELSE r

\* match r { Ok(v) => Ok(v), Err(e) => match e.kind { kind => fallback, _ => Err(e) } }
OnErrorKind(r, kind, fallback) ==
    IF r.ok THEN r ELSE IF r.kind = kind THEN fallback ELSE r

\* if let Ok(d) = a { d } else b
FirstOk(a, b) == IF a.ok THEN a ELSE b

(***************************************************************************)
(* Constants of signature.rs                                               *)
(***************************************************************************)
APPLICATION_X_WWW_FORM_URLENCODED == <<"a", "p", "p", "l", "i", "c", "a", "t", "i", "o", "n", "/", "x", "-", "w", "w", "w", "-", "f", "o", "r", "m", "-", "u", "r", "l", "e", "n", "c", "o", "d", "e", "d">>
AWS4_HMAC_SHA256 == <<"A", "W", "S", "4", "-", "H", "M", "A", "C", "-", "S", "H", "A", "2", "5", "6">>
AWS4_REQUEST == <<"a", "w", "s", "4", "_", "r", "e", "q", "u", "e", "s", "t">>
AUTHORIZATION == <<"a", "u", "t", "h", "o", "r", "i", "z", "a", "t", "i", "o", "n">>
CHARSET == <<"c", "h", "a", "r", "s", "e", "t">>
CREDENTIAL == <<"C", "r", "e", "d", "e", "n", "t", "i", "a", "l">>
CONTENT_TYPE == <<"c", "o", "n", "t", "e", "n", "t", "-", "t", "y", "p", "e">>
DATE == <<"d", "a", "t", "e">>
SHA256_EMPTY == <<"e", "3", "b", "0", "c", "4", "4", "2", "9", "8", "f", "c", "1", "c", "1", "4", "9", "a", "f", "b", "f", "4", "c", "8", "9", "9", "6", "f", "b", "9", "2", "4", "2", "7", "a", "e", "4", "1", "e", "4", "6", "4", "9", "b", "9", "3", "4", "c", "a", "4", "9", "5", "9", "9", "1", "b", "7", "8", "5", "2", "b", "8", "5", "5">>
SIGNATURE == <<"S", "i", "g", "n", "a", "t", "u", "r", "e">>
SIGNEDHEADERS == <<"S", "i", "g", "n", "e", "d", "H", "e", "a", "d", "e", "r", "s">>
X_AMZ_CREDENTIAL == <<"X", "-", "A", "m", "z", "-", "C", "r", "e", "d", "e", "n", "t", "i", "a", "l">>
X_AMZ_DATE == <<"X", "-", "A", "m", "z", "-", "D", "a", "t", "e">>
X_AMZ_DATE_LOWER == <<"x", "-", "a", "m", "z", "-", "d", "a", "t", "e">>
X_AMZ_SECURITY_TOKEN == <<"X", "-", "A", "m", "z", "-", "S", "e", "c", "u", "r", "i", "t", "y", "-", "T", "o", "k", "e", "n">>
X_AMZ_SECURITY_TOKEN_LOWER == <<"x", "-", "a", "m", "z", "-", "s", "e", "c", "u", "r", "i", "t", "y", "-", "t", "o", "k", "e", "n">>
X_AMZ_SIGNATURE == <<"X", "-", "A", "m", "z", "-", "S", "i", "g", "n", "a", "t", "u", "r", "e">>
X_AMZ_SIGNEDHEADERS == <<"X", "-", "A", "m", "z", "-", "S", "i", "g", "n", "e", "d", "H", "e", "a", "d", "e", "r", "s">>

(***************************************************************************)
(* Path and query normalization                                            *)
(***************************************************************************)
is_rfc3986_unreserved(c) ==
    is_ascii_alphanumeric(c) \/ c = "-" \/ c = "." \/ c = "_" \/ c = "~"

\* The body of the while loop that writes an escape it keeps with the hex
\* digits of the input, in their case.
NormalizeStepKeepCase(path_component, i) ==
    LET c == path_component[i] IN
    IF is_rfc3986_unreserved(c) THEN Ok(<<<<c>>, i + 1>>)
    ELSE IF c = "%" THEN
        IF i + 1 > Len(path_component) THEN Ok(<<<<"%", "2", "5">>, i + 1>>)
        ELSE IF i + 2 > Len(path_component) THEN Panic(<<>>)
        ELSE
            LET h1 == path_component[i + 1]
                h2 == path_component[i + 2]
            IN
            IF IsHexDigit(h1) /\ IsHexDigit(h2) THEN
                LET value == 16 * HexVal(h1) + HexVal(h2) IN
                IF value >= 32 /\ value <= 126 /\ is_rfc3986_unreserved(Chr(value))
                THEN Ok(<<<<Chr(value)>>, i + 3>>)
                ELSE Ok(<<<<"%", h1, h2>>, i + 3>>)
            ELSE Err("InvalidURIPath", <<h1, h2>>)
    ELSE IF c = "+" THEN Ok(<<<<"%", "2", "0">>, i + 1>>)
    ELSE Ok(<<PercentEncode(Ord(c)), i + 1>>)

\* The body of the while loop of normalize_uri_path_component at the
\* 1-based position i (the code's i + 1): Ok(<<bytes written, next i>>).
NormalizeStep(path_component, i) ==
    LET c == path_component[i] IN
    IF is_rfc3986_unreserved(c) THEN Ok(<<<<c>>, i + 1>>)
    ELSE IF c = "%" THEN
        IF i + 1 > Len(path_component) THEN
            \* i + 2 > len: the '%' is the last byte and is written as %25.
            Ok(<<<<"%", "2", "5">>, i + 1>>)
        ELSE IF i + 2 > Len(path_component) THEN
            \* &path_component[i + 1..i + 3] with one byte left: slice out of range.
            Panic(<<"r", "a", "n", "g", "e", " ", "e", "n", "d", " ", "i", "n", "d", "e", "x", " ", "o", "u", "t", " ", "o", "f", " ", "r", "a", "n", "g", "e", " ", "f", "o", "r", " ", "s", "l", "i", "c", "e">>)
        ELSE
            LET h1 == path_component[i + 1]
                h2 == path_component[i + 2]
            IN
            IF IsHexDigit(h1) /\ IsHexDigit(h2) THEN
                LET value == 16 * HexVal(h1) + HexVal(h2) IN
                IF value >= 32 /\ value <= 126 /\ is_rfc3986_unreserved(Chr(value))
                THEN Ok(<<<<Chr(value)>>, i + 3>>)
                ELSE Ok(<<PercentEncode(value), i + 3>>)
            ELSE Err("InvalidURIPath", <<"I", "n", "v", "a", "l", "i", "d", " ", "h", "e", "x", " ", "e", "n", "c", "o", "d", "i", "n", "g", ":", " ">> \o <<h1, h2>>)
    ELSE IF c = "+" THEN Ok(<<<<"%", "2", "0">>, i + 1>>)
    ELSE Ok(<<PercentEncode(Ord(c)), i + 1>>)

\* The while loop run from position i until i passes hi, the first error
\* ending it: Ok(<<bytes written, next i>>).  The run is cut in two halves
\* to keep the evaluation shallow; the second half starts where the first
\* one ended.
RECURSIVE NormalizeLoop(_, _, _)
NormalizeLoop(path_component, i, hi) ==
    IF i > hi THEN Ok(<<<<>>, i>>)
    ELSE IF i = hi THEN NormalizeStep(path_component, i)
    ELSE
      LET first == NormalizeLoop(path_component, i, (i + hi) \div 2) IN
      IF ~first.ok THEN first
      ELSE
        LET second == NormalizeLoop(path_component, first.val[2], hi) IN
        IF ~second.ok THEN second
        ELSE Ok(<<first.val[1] \o second.val[1], second.val[2]>>)

normalize_uri_path_component(path_component) ==
    Try(NormalizeLoop(path_component, 1, Len(path_component)), LAMBDA run : Ok(run[1]))

RemoveAt(s, i) == SubSeq(s, 1, i - 1) \o SubSeq(s, i + 1, Len(s))

\* The while loop without the step back after a '..': the component that
\* follows the two removed ones is passed over.
RECURSIVE CanonicalizeLoopNoStepBack(_, _, _)
CanonicalizeLoopNoStepBack(components, i, uri_path) ==
    IF i > Len(components) THEN
        IF Len(components) = 1 THEN Ok(<<"/">>) ELSE Ok(join(components, <<"/">>))
    ELSE
      Try(normalize_uri_path_component(components[i]), LAMBDA component :
        IF component = <<".">> THEN
            CanonicalizeLoopNoStepBack(RemoveAt(components, i), i, uri_path)
        ELSE IF component = <<".", ".">> THEN
            IF i <= 2 THEN Err("InvalidURIPath", uri_path)
            ELSE
                CanonicalizeLoopNoStepBack(RemoveAt(RemoveAt(components, i - 1), i - 1), i, uri_path)
        ELSE
            CanonicalizeLoopNoStepBack([components EXCEPT ![i] = component], i + 1, uri_path))

\* The while loop of canonicalize_uri_path; components[1] is the empty
\* component before the leading '/', so i is the code's i + 1.
RECURSIVE CanonicalizeLoop(_, _, _)
CanonicalizeLoop(components, i, uri_path) ==
    IF i > Len(components) THEN
        IF Len(components) = 1 THEN Ok(<<"/">>) ELSE Ok(join(components, <<"/">>))
    ELSE
      Try(normalize_uri_path_component(components[i]), LAMBDA component :
        IF component = <<".">> THEN
            CanonicalizeLoop(RemoveAt(components, i), i, uri_path)
        ELSE IF component = <<".", ".">> THEN
            IF i <= 2 THEN
                Err("InvalidURIPath",
                    <<"R", "e", "l", "a", "t", "i", "v", "e", " ", "p", "a", "t", "h", " ", "e", "n", "t", "r", "y", " ", "'", ".", ".", "'", " ", "n", "a", "v", "i", "g", "a", "t", "e", "s", " ", "a", "b", "o", "v", "e", " ", "r", "o", "o", "t", ":", " ">> \o uri_path)
            ELSE
                CanonicalizeLoop(RemoveAt(RemoveAt(components, i - 1), i - 1), i - 1, uri_path)
        ELSE
            CanonicalizeLoop([components EXCEPT ![i] = component], i + 1, uri_path))

\* The while loop with the tests for '.' and '..' made on the component as
\* it is written, before it is normalized.
RECURSIVE CanonicalizeLoopRawDots(_, _, _)
CanonicalizeLoopRawDots(components, i, uri_path) ==
    IF i > Len(components) THEN
        IF Len(components) = 1 THEN Ok(<<"/">>) ELSE Ok(join(components, <<"/">>))
    ELSE IF components[i] = <<".">> THEN
        CanonicalizeLoopRawDots(RemoveAt(components, i), i, uri_path)
    ELSE IF components[i] = <<".", ".">> THEN
        IF i <= 2 THEN Err("InvalidURIPath", uri_path)
        ELSE CanonicalizeLoopRawDots(RemoveAt(RemoveAt(components, i - 1), i - 1), i - 1, uri_path)
    ELSE
      Try(normalize_uri_path_component(components[i]), LAMBDA component :
        CanonicalizeLoopRawDots([components EXCEPT ![i] = component], i + 1, uri_path))

\* canonicalize_uri_path with that loop.
CanonicalizeCollapsedRawDots(collapsed) ==
    CanonicalizeLoopRawDots(split(collapsed, "/"), 2, collapsed)

\* canonicalize_uri_path once the runs of '/' are collapsed.
CanonicalizeCollapsed(collapsed) == CanonicalizeLoop(split(collapsed, "/"), 2, collapsed)

\* canonicalize_uri_path without the test that the path is absolute.
canonicalize_uri_path_any_start(uri_path) ==
    IF uri_path = <<>> \/ uri_path = <<"/">> THEN Ok(<<"/">>)
    ELSE CanonicalizeCollapsed(CollapseRuns(uri_path, "/"))

canonicalize_uri_path(uri_path) ==
    IF uri_path = <<>> \/ uri_path = <<"/">> THEN Ok(<<"/">>)
    ELSE IF Head(uri_path) # "/" THEN
        Err("InvalidURIPath", <<"P", "a", "t", "h", " ", "i", "s", " ", "n", "o", "t", " ", "a", "b", "s", "o", "l", "u", "t", "e", ":", " ">> \o uri_path)
    ELSE CanonicalizeCollapsed(CollapseRuns(uri_path, "/"))

\* HashMap<String, Vec<String>> is a function from the keys to their values.
EmptyMap == [k \in {} |-> <<>>]

MapInsert(m, k, v) == [x \in DOMAIN m \cup {k} |-> IF x = k THEN v ELSE m[x]]

\* result with value pushed onto the values of key (a new key starts a new Vec).
MapPush(m, k, v) ==
    IF k \in DOMAIN m THEN [m EXCEPT ![k] = Append(@, v)] ELSE MapInsert(m, k, <<v>>)

\* The for loop of normalize_query_parameters over the fragments left.
RECURSIVE QueryLoop(_, _)
QueryLoop(components, result) ==
    IF components = <<>> THEN Ok(result)
    ELSE IF Len(Head(components)) = 0 THEN QueryLoop(Tail(components), result)
    \* parts.len() > 0 always holds, so parts[1] is read also when the
    \* fragment has no '=': index out of bounds.
    ELSE IF Len(splitn2(Head(components), "=")) < 2 THEN
        Panic(<<"i", "n", "d", "e", "x", " ", "o", "u", "t", " ", "o", "f", " ", "b", "o", "u", "n", "d", "s", ":", " ", "t", "h", "e", " ", "l", "e", "n", " ", "i", "s", " ", "1", " ", "b", "u", "t", " ", "t", "h", "e", " ", "i", "n", "d", "e", "x", " ", "i", "s", " ", "1">>)
    ELSE
      Try(normalize_uri_path_component(splitn2(Head(components), "=")[1]), LAMBDA norm_key :
        Try(normalize_uri_path_component(splitn2(Head(components), "=")[2]), LAMBDA norm_value :
          QueryLoop(Tail(components), MapPush(result, norm_key, norm_value))))

normalize_query_parameters(query_string) ==
    IF Len(query_string) = 0 THEN Ok(EmptyMap)
    ELSE QueryLoop(split(query_string, "&"), EmptyMap)

(***************************************************************************)
(* Dates: a DateTime<Utc> is its number of seconds since 1970-01-01T00:00Z *)
(***************************************************************************)
RECURSIVE Num(_)
Num(s) == IF s = <<>> THEN 0 ELSE 10 * Num(SubSeq(s, 1, Len(s) - 1)) + DigitVal(s[Len(s)])

AllDigits(s) == \A i \in DOMAIN s : IsDigit(s[i])

IsLeapYear(y) == (y % 4 = 0 /\ y % 100 # 0) \/ y % 400 = 0

DaysInMonth(y, m) ==
    IF m = 2 THEN (IF IsLeapYear(y) THEN 29 ELSE 28)
    ELSE IF m \in {4, 6, 9, 11} THEN 30 ELSE 31

\* Days from 1970-01-01 to the civil date y-m-d (proleptic Gregorian).
DaysFromCivil(y, m, d) ==
    LET yy == IF m <= 2 THEN y - 1 ELSE y
        era == yy \div 400
        yoe == yy - era * 400
        mp == IF m > 2 THEN m - 3 ELSE m + 9
        doy == (153 * mp + 2) \div 5 + d - 1
        doe == yoe * 365 + yoe \div 4 - yoe \div 100 + doy
    IN era * 146097 + doe - 719468

\* The civil date <<y, m, d>> of a day number.
CivilFromDays(z0) ==
    LET z == z0 + 719468
        era == z \div 146097
        doe == z - era * 146097
        yoe == (doe - doe \div 1460 + doe \div 36524 - doe \div 146096) \div 365
        doy == doe - (365 * yoe + yoe \div 4 - yoe \div 100)
        mp == (5 * doy + 2) \div 153
        d == doy - (153 * mp + 2) \div 5 + 1
        m == IF mp < 10 THEN mp + 3 ELSE mp - 9
        y == yoe + era * 400 + (IF m <= 2 THEN 1 ELSE 0)
    IN <<y, m, d>>

ValidDateTime(y, mo, d, h, mi, s) ==
    /\ mo >= 1 /\ mo <= 12
    /\ d >= 1 /\ d <= DaysInMonth(y, mo)
    /\ h <= 23 /\ mi <= 59 /\ s <= 59

ToTimestamp(y, mo, d, h, mi, s) ==
    DaysFromCivil(y, mo, d) * 86400 + h * 3600 + mi * 60 + s

\* n as k decimal digits, zero padded.
RECURSIVE Pad(_, _)
Pad(n, k) == IF k = 0 THEN <<>> ELSE Pad(n \div 10, k - 1) \o <<Chr(48 + (n % 10))>>

\* The civil date c as year, month and day with sep between them.
FormatDate(c, sep) == Pad(c[1], 4) \o sep \o Pad(c[2], 2) \o sep \o Pad(c[3], 2)

\* DateTime::date().format("%Y%m%d")
FormatYmd(ts) == FormatDate(CivilFromDays(ts \div 86400), <<>>)

\* DateTime::format(ISO8601_COMPACT_FORMAT), "%Y%m%dT%H%M%SZ"
FormatCompact(ts) ==
    LET sod == ts % 86400 IN
    FormatYmd(ts) \o <<"T">> \o Pad(sod \div 3600, 2) \o Pad((sod % 3600) \div 60, 2)
        \o Pad(sod % 60, 2) \o <<"Z">>

\* ParseISO8601::parse_from_iso8601 of chronoutil: the compact form
\* YYYYMMDDTHHMMSSZ.
parse_from_iso8601(s) ==
    IF /\ Len(s) = 16
       /\ AllDigits(SubSeq(s, 1, 8)) /\ s[9] = "T"
       /\ AllDigits(SubSeq(s, 10, 15)) /\ s[16] = "Z"
       /\ ValidDateTime(Num(SubSeq(s, 1, 4)), Num(SubSeq(s, 5, 6)), Num(SubSeq(s, 7, 8)),
                        Num(SubSeq(s, 10, 11)), Num(SubSeq(s, 12, 13)), Num(SubSeq(s, 14, 15)))
    THEN Ok(ToTimestamp(Num(SubSeq(s, 1, 4)), Num(SubSeq(s, 5, 6)), Num(SubSeq(s, 7, 8)),
                        Num(SubSeq(s, 10, 11)), Num(SubSeq(s, 12, 13)), Num(SubSeq(s, 14, 15))))
    ELSE Err("ParseError", s)

\* DateTime::parse_from_rfc3339 on the form YYYY-MM-DDTHH:MM:SSZ (the forms
\* with a fraction of a second or a numeric offset are not among the inputs).
parse_from_rfc3339(s) ==
    IF /\ Len(s) = 20
       /\ AllDigits(SubSeq(s, 1, 4)) /\ s[5] = "-" /\ AllDigits(SubSeq(s, 6, 7))
       /\ s[8] = "-" /\ AllDigits(SubSeq(s, 9, 10)) /\ s[11] = "T"
       /\ AllDigits(SubSeq(s, 12, 13)) /\ s[14] = ":" /\ AllDigits(SubSeq(s, 15, 16))
       /\ s[17] = ":" /\ AllDigits(SubSeq(s, 18, 19)) /\ s[20] = "Z"
       /\ ValidDateTime(Num(SubSeq(s, 1, 4)), Num(SubSeq(s, 6, 7)), Num(SubSeq(s, 9, 10)),
                        Num(SubSeq(s, 12, 13)), Num(SubSeq(s, 15, 16)), Num(SubSeq(s, 18, 19)))
    THEN Ok(ToTimestamp(Num(SubSeq(s, 1, 4)), Num(SubSeq(s, 6, 7)), Num(SubSeq(s, 9, 10)),
                        Num(SubSeq(s, 12, 13)), Num(SubSeq(s, 15, 16)), Num(SubSeq(s, 18, 19))))
    ELSE Err("ParseError", s)

MonthNames ==
    <<<<"J", "a", "n">>, <<"F", "e", "b">>, <<"M", "a", "r">>, <<"A", "p", "r">>, <<"M", "a", "y">>, <<"J", "u", "n">>,
      <<"J", "u", "l">>, <<"A", "u", "g">>, <<"S", "e", "p">>, <<"O", "c", "t">>, <<"N", "o", "v">>, <<"D", "e", "c">>>>

\* Day names by day number modulo 7 (1970-01-01 was a Thursday).
WeekdayNames == <<<<"T", "h", "u">>, <<"F", "r", "i">>, <<"S", "a", "t">>, <<"S", "u", "n">>, <<"M", "o", "n">>, <<"T", "u", "e">>, <<"W", "e", "d">>>>

\* DateTime::parse_from_rfc2822 on the HTTP date form
\* "Ddd, DD Mon YYYY HH:MM:SS GMT"; the day name must be that of the date.
parse_from_rfc2822(s) ==
    IF /\ Len(s) = 29
       /\ SubSeq(s, 4, 5) = <<",", " ">> /\ AllDigits(SubSeq(s, 6, 7)) /\ s[8] = " "
       /\ SubSeq(s, 9, 11) \in Range(MonthNames) /\ s[12] = " "
       /\ AllDigits(SubSeq(s, 13, 16)) /\ s[17] = " "
       /\ AllDigits(SubSeq(s, 18, 19)) /\ s[20] = ":" /\ AllDigits(SubSeq(s, 21, 22))
       /\ s[23] = ":" /\ AllDigits(SubSeq(s, 24, 25)) /\ SubSeq(s, 26, 29) = <<" ", "G", "M", "T">>
    THEN
        LET mo == CHOOSE m \in DOMAIN MonthNames : MonthNames[m] = SubSeq(s, 9, 11)
            y == Num(SubSeq(s, 13, 16))
            d == Num(SubSeq(s, 6, 7))
            h == Num(SubSeq(s, 18, 19))
            mi == Num(SubSeq(s, 21, 22))
            sec == Num(SubSeq(s, 24, 25))
        IN
        IF /\ ValidDateTime(y, mo, d, h, mi, sec)
           /\ WeekdayNames[(DaysFromCivil(y, mo, d) % 7) + 1] = SubSeq(s, 1, 3)
        THEN Ok(ToTimestamp(y, mo, d, h, mi, sec))
        ELSE Err("ParseError", s)
    ELSE Err("ParseError", s)

(***************************************************************************)
(* impl Request                                                            *)
(***************************************************************************)
\* match values.len() of get_header_one, for the values found under header.
HeaderValueOne(values, header) ==
    IF Len(values) = 0 THEN Err("MissingHeader", header)
    ELSE IF Len(values) = 1 THEN
        IF IsUtf8(values[1]) THEN Ok(values[1]) ELSE Err("MalformedHeader", header)
    ELSE Err("MultipleHeaderValues", header)

get_header_one(req, header) ==
    IF header \notin DOMAIN req.headers THEN Err("MissingHeader", header)
    ELSE HeaderValueOne(req.headers[header], header)

get_query_parameters(req) == normalize_query_parameters(req.query_string)

get_query_param_one(req, parameter) ==
    Try(get_query_parameters(req), LAMBDA qp :
        IF parameter \notin DOMAIN qp THEN Err("MissingParameter", parameter)
        ELSE IF Len(qp[parameter]) = 0 THEN Err("MissingParameter", parameter)
        ELSE IF Len(qp[parameter]) = 1 THEN Ok(qp[parameter][1])
        ELSE Err("MultipleParameterValues", parameter))

\* The for loop of get_content_type_and_charset over the options after the
\* media type: the charset of the first charset option, utf-8 without one.
RECURSIVE CharsetOption(_)
CharsetOption(options) ==
    IF options = <<>> THEN <<"u", "t", "f", "-", "8">>
    ELSE IF /\ Len(splitn2(trim(Head(options)), "=")) = 2
            /\ splitn2(trim(Head(options)), "=")[1] = CHARSET
    THEN to_lowercase(trim(splitn2(trim(Head(options)), "=")[2]))
    ELSE CharsetOption(Tail(options))

\* Ok(<<content_type, charset>>)
get_content_type_and_charset(req) ==
    Try(get_header_one(req, CONTENT_TYPE), LAMBDA content_type_opts :
        Ok(<<trim(split(content_type_opts, ";")[1]),
             CharsetOption(Tail(split(content_type_opts, ";")))>>))

(***************************************************************************)
(* SHA-256 and HMAC-SHA256 (ring).  The digest of the empty input is the   *)
(* real one, which the code also holds as SHA256_EMPTY; every other input  *)
(* gets a 15-bit stand-in computed from all of its bytes in order.         *)
(***************************************************************************)
Sha256EmptyBytes ==
    <<227, 176, 196, 66, 152, 252, 28, 20, 154, 251, 244, 200, 153, 111, 185, 36,
      39, 174, 65, 228, 100, 155, 147, 76, 164, 149, 153, 27, 120, 82, 184, 85>>

\* <<h, p>> for bytes[lo..hi]: h is the polynomial sum of the bytes with
\* base 33 modulo 2^15 and p is 33^(hi - lo + 1) modulo 2^15.
RECURSIVE PolyDigest(_, _, _)
PolyDigest(bytes, lo, hi) ==
    IF lo > hi THEN <<0, 1>>
    ELSE IF lo = hi THEN <<(bytes[lo] + 1) % 32768, 33>>
    ELSE
      LET mid == (lo + hi) \div 2
          l == PolyDigest(bytes, lo, mid)
          r == PolyDigest(bytes, mid + 1, hi)
      IN <<(l[1] * r[2] + r[1]) % 32768, (l[2] * r[2]) % 32768>>

\* The stand-in digest of bytes from the state h: 15 bits.
FoldDigest(bytes, h) ==
    LET p == PolyDigest(bytes, 1, Len(bytes)) IN (h * p[2] + p[1]) % 32768

\* digest(&SHA256, data)
digest(bytes) ==
    IF bytes = <<>> THEN Sha256EmptyBytes
    ELSE LET h == FoldDigest(bytes, 5381) IN <<h \div 256, h % 256>>

\* hmac::sign(&hmac::Key::new(hmac::HMAC_SHA256, key), data)
hmac_sign(key, data) ==
    LET h == FoldDigest(data, FoldDigest(key, 20251)) IN <<h \div 256, h % 256>>

(***************************************************************************)
(* trait AWSSigV4Algorithm                                                 *)
(***************************************************************************)
get_canonical_uri_path(req) == canonicalize_uri_path(req.uri_path)

\* The elements of a finite set in some order (the iteration of a HashMap).
RECURSIVE SetToSeq(_)
SetToSeq(S) ==
    IF S = {} THEN <<>>
    ELSE <<CHOOSE y \in S : TRUE>> \o SetToSeq(S \ {CHOOSE y \in S : TRUE})

\* format!("{}={}", key, value) for every value of every key ks[i] of m.
KeyValuePairsOf(m, ks) ==
    Flatten([i \in DOMAIN ks |->
        [j \in DOMAIN m[ks[i]] |-> ks[i] \o <<"=">> \o m[ks[i]][j]]])

KeyValuePairs(m, keys) == KeyValuePairsOf(m, SetToSeq(keys))

\* The entries joined in the order in which they were pushed.
UnsortedQueryString(results) == Ok(join(results, <<"&">>))

\* results.sort_unstable(); results.join("&")
SortedQueryString(results) == Ok(join(SortStrings(results), <<"&">>))

\* The rest of get_canonical_query_string once the query parameters are in
\* results: ctc is what get_content_type_and_charset returned.
MergeFormBody(results, ctc, body) ==
    IF ctc.ok /\ ctc.val[1] = APPLICATION_X_WWW_FORM_URLENCODED THEN
        IF ctc.val[2] # <<"u", "t", "f", "-", "8">> /\ ctc.val[2] # <<"u", "t", "f", "8">> THEN
            Err("InvalidBodyEncoding",
                <<"a", "p", "p", "l", "i", "c", "a", "t", "i", "o", "n", "/", "x", "-", "w", "w", "w", "-", "f", "o", "r", "m", "-", "u", "r", "l", "e", "n", "c", "o", "d", "e", "d", " ", "b", "o", "d", "y", " ", "u", "s", "e", "s", " ", "u", "n", "s", "u", "p", "p", "o", "r", "t", "e", "d", " ", "c", "h", "a", "r", "s", "e", "t", " ">>
                    \o ctc.val[2])
        ELSE IF ~IsUtf8(body) THEN
            Err("InvalidBodyEncoding",
                <<"a", "p", "p", "l", "i", "c", "a", "t", "i", "o", "n", "/", "x", "-", "w", "w", "w", "-", "f", "o", "r", "m", "-", "u", "r", "l", "e", "n", "c", "o", "d", "e", "d", " ", "b", "o", "d", "y", " ", "c", "o", "n", "t", "a", "i", "n", "s", " ", "i", "n", "v", "a", "l", "i", "d", " ", "U", "T", "F", "-", "8", " ", "c", "h", "a", "r", "a", "c", "t", "e", "r", "s">>)
        ELSE
            Try(normalize_query_parameters(body), LAMBDA body_normalized :
                SortedQueryString(results
                    \o KeyValuePairs(body_normalized, DOMAIN body_normalized)))
    ELSE SortedQueryString(results)

get_canonical_query_string(req) ==
    Try(get_query_parameters(req), LAMBDA query_parameters :
        MergeFormBody(KeyValuePairs(query_parameters,
                                    DOMAIN query_parameters \ {X_AMZ_SIGNATURE}),
                      get_content_type_and_charset(req), req.body))

\* One turn of the for loop of get_authorization_header_parameters: the
\* parameter split at its first '=' is parts.
AuthParamInsert(parts, result) ==
    IF Len(parts) # 2 THEN
        Err("MalformedSignature", <<"I", "n", "v", "a", "l", "i", "d", " ", "A", "u", "t", "h", "o", "r", "i", "z", "a", "t", "i", "o", "n", " ", "h", "e", "a", "d", "e", "r", ":", " ", "m", "i", "s", "s", "i", "n", "g", " ", "'", "=", "'">>)
    ELSE IF trim_start(parts[1]) \in DOMAIN result THEN
        Err("MalformedSignature",
            <<"I", "n", "v", "a", "l", "i", "d", " ", "A", "u", "t", "h", "o", "r", "i", "z", "a", "t", "i", "o", "n", " ", "h", "e", "a", "d", "e", "r", ":", " ", "d", "u", "p", "l", "i", "c", "a", "t", "e", " ", "k", "e", "y", " ">> \o trim_start(parts[1]))
    ELSE Ok(MapInsert(result, trim_start(parts[1]), trim_end(parts[2])))

\* The for loop of get_authorization_header_parameters over the
\* comma-separated parameters left.
RECURSIVE AuthParamLoop(_, _)
AuthParamLoop(parameters, result) ==
    IF parameters = <<>> THEN Ok(result)
    ELSE Try(AuthParamInsert(splitn2(Head(parameters), "="), result),
             LAMBDA inserted : AuthParamLoop(Tail(parameters), inserted))

\* get_authorization_header_parameters once the header is split at its
\* first space.
AuthParamsOf(alg_parts) ==
    IF alg_parts[1] # AWS4_HMAC_SHA256 THEN Err("UnknownSignatureAlgorithm", alg_parts[1])
    ELSE IF Len(alg_parts) # 2 THEN Err("MalformedSignature", <<"M", "i", "s", "s", "i", "n", "g", " ", "p", "a", "r", "a", "m", "e", "t", "e", "r", "s">>)
    ELSE AuthParamLoop(split(alg_parts[2], ","), EmptyMap)

get_authorization_header_parameters(req) ==
    Try(get_header_one(req, AUTHORIZATION), LAMBDA auth : AuthParamsOf(splitn2(auth, " ")))

\* Stable insertion by lower-cased name.
RECURSIVE InsertSortedLower(_, _)
InsertSortedLower(x, ss) ==
    IF ss = <<>> THEN <<x>>
    ELSE IF StrLess(to_lowercase(x), to_lowercase(Head(ss))) THEN <<x>> \o ss
    ELSE <<Head(ss)>> \o InsertSortedLower(x, Tail(ss))

\* sort_unstable_by on the lower-cased names (an insertion sort for the
\* short lists a request carries).
RECURSIVE SortLower(_)
SortLower(ss) ==
    IF ss = <<>> THEN <<>>
    ELSE InsertSortedLower(ss[Len(ss)], SortLower(SubSeq(ss, 1, Len(ss) - 1)))

\* The signed-headers list of the request: the X-Amz-SignedHeaders query
\* parameter, else the SignedHeaders parameter of the Authorization header.
SignedHeadersList(req) ==
    OnErrorKind(get_query_param_one(req, X_AMZ_SIGNEDHEADERS), "MissingParameter",
        Try(get_authorization_header_parameters(req), LAMBDA ahp :
            IF SIGNEDHEADERS \notin DOMAIN ahp
            THEN Err("MissingParameter", <<"S", "i", "g", "n", "e", "d", "H", "e", "a", "d", "e", "r", "s">>)
            ELSE Ok(ahp[SIGNEDHEADERS])))

\* The for loop of get_signed_headers over the listed names left.
RECURSIVE SignedHeaderLoop(_, _, _)
SignedHeaderLoop(req, names, result) ==
    IF names = <<>> THEN Ok(result)
    ELSE IF Head(names) \notin DOMAIN req.headers THEN
        Err("MissingParameter", Head(names))
    ELSE SignedHeaderLoop(req, Tail(names),
            MapInsert(result, Head(names), req.headers[Head(names)]))

\* get_signed_headers that sorts the list itself and takes it in any order.
SignedHeadersOfAnyOrder(req, parts) == SignedHeaderLoop(req, SortLower(parts), EmptyMap)

\* get_signed_headers once the list is split at its semicolons.
SignedHeadersOf(req, parts) ==
    IF parts # SortLower(parts) THEN
        Err("MalformedSignature", <<"S", "i", "g", "n", "e", "d", "H", "e", "a", "d", "e", "r", "s", " ", "i", "s", " ", "n", "o", "t", " ", "c", "a", "n", "o", "n", "i", "c", "a", "l", "i", "z", "e", "d">>)
    ELSE SignedHeaderLoop(req, SortLower(parts), EmptyMap)

\* Ok(m): the BTreeMap from the signed header names to their values.
get_signed_headers(req) ==
    Try(SignedHeadersList(req), LAMBDA signed_headers :
        SignedHeadersOf(req, split(signed_headers, ";")))

\* The date string of a request that names the x-amz-date header before
\* the X-Amz-Date query parameter.
RequestDateStringHeaderFirst(req) ==
    OnErrorKind(get_header_one(req, X_AMZ_DATE_LOWER), "MissingHeader",
        OnErrorKind(get_query_param_one(req, X_AMZ_DATE), "MissingParameter",
            get_header_one(req, DATE)))

\* The date string get_request_timestamp settles on.
RequestDateString(req) ==
    OnErrorKind(get_query_param_one(req, X_AMZ_DATE), "MissingParameter",
        OnErrorKind(get_header_one(req, X_AMZ_DATE_LOWER), "MissingHeader",
            get_header_one(req, DATE)))

\* The three parsers in the order the code prefers their results.
ParseDate(date_str) ==
    FirstOk(parse_from_rfc2822(date_str),
        FirstOk(parse_from_rfc3339(date_str),
            FirstOk(parse_from_iso8601(date_str),
                Err("MalformedSignature", <<"I", "n", "v", "a", "l", "i", "d", " ", "d", "a", "t", "e", " ", "s", "t", "r", "i", "n", "g", " ">> \o date_str))))

get_request_timestamp(req) ==
    Try(RequestDateString(req), LAMBDA date_str : ParseDate(date_str))

get_credential_scope(req) ==
    Try(get_request_timestamp(req), LAMBDA ts :
        Ok(FormatYmd(ts) \o <<"/">> \o req.region \o <<"/">> \o req.service
               \o <<"/">> \o AWS4_REQUEST))

\* The credential string get_access_key reads.
RequestCredential(req) ==
    OnErrorKind(get_query_param_one(req, X_AMZ_CREDENTIAL), "MissingParameter",
        get_header_one(req, CREDENTIAL))

\* get_access_key that returns the access key of any credential with a
\* scope, without comparing the scope.
get_access_key_any_scope(req) ==
    Try(RequestCredential(req), LAMBDA credential :
        IF Len(splitn2(credential, "/")) # 2
        THEN Err("InvalidCredential", <<"M", "a", "l", "f", "o", "r", "m", "e", "d", " ", "c", "r", "e", "d", "e", "n", "t", "i", "a", "l">>)
        ELSE Try(get_credential_scope(req), LAMBDA server_scope :
                 Ok(splitn2(credential, "/")[1])))

\* get_access_key once the credential is split at its first '/'.
AccessKeyOf(req, parts) ==
    IF Len(parts) # 2 THEN Err("InvalidCredential", <<"M", "a", "l", "f", "o", "r", "m", "e", "d", " ", "c", "r", "e", "d", "e", "n", "t", "i", "a", "l">>)
    ELSE
      Try(get_credential_scope(req), LAMBDA server_scope :
        IF parts[2] = server_scope THEN Ok(parts[1])
        ELSE Err("InvalidCredential",
                 <<"I", "n", "v", "a", "l", "i", "d", " ", "c", "r", "e", "d", "e", "n", "t", "i", "a", "l", " ", "s", "c", "o", "p", "e", ":", " ", "E", "x", "p", "e", "c", "t", "e", "d", " ">> \o server_scope
                     \o <<" ", "i", "n", "s", "t", "e", "a", "d", " ", "o", "f", " ">> \o parts[2]))

get_access_key(req) ==
    Try(RequestCredential(req), LAMBDA credential :
        AccessKeyOf(req, splitn2(credential, "/")))

\* Ok(Some(token))
SomeToken(token) == Ok(Some(token))

\* Ok(None) or Ok(Some(token))
get_session_token(req) ==
    OnErrorKind(Try(get_query_param_one(req, X_AMZ_SECURITY_TOKEN), SomeToken),
        "MissingParameter",
        OnErrorKind(Try(get_header_one(req, X_AMZ_SECURITY_TOKEN_LOWER), SomeToken),
            "MissingParameter", Ok(None)))

get_request_signature(req) ==
    OnErrorKind(get_query_param_one(req, X_AMZ_SIGNATURE), "MissingParameter",
        get_header_one(req, SIGNATURE))

get_body_digest(req) == Ok(hex_encode(digest(as_bytes(req.body))))

\* One header line of the canonical request, "key:v1,v2\n"; from_utf8(value)
\* is unwrapped for every value.
HeaderLine(key, values) ==
    IF \E i \in DOMAIN values : ~IsUtf8(values[i]) THEN
        Panic(<<"c", "a", "l", "l", "e", "d", " ", "R", "e", "s", "u", "l", "t", ":", ":", "u", "n", "w", "r", "a", "p", "(", ")", " ", "o", "n", " ", "a", "n", " ", "E", "r", "r", " ", "v", "a", "l", "u", "e", ":", " ", "U", "t", "f", "8", "E", "r", "r", "o", "r">>)
    ELSE Ok(key \o <<":">> \o join([i \in DOMAIN values |-> CollapseRuns(values[i], " ")], <<",">>)
                \o <<LF>>)

\* The for loop of get_canonical_request over the signed headers left, in
\* the order of the BTreeMap.
RECURSIVE HeaderLines(_, _, _)
HeaderLines(signed, keys, result) ==
    IF keys = <<>> THEN Ok(result)
    ELSE Try(HeaderLine(Head(keys), signed[Head(keys)]),
             LAMBDA line : HeaderLines(signed, Tail(keys), result \o line))

\* The digest of the body as the last line whatever the content type.
PayloadLineBodyDigest(ctc, body_hex_digest) == body_hex_digest

\* The last line of the canonical request: ctc is what
\* get_content_type_and_charset returned.
PayloadLine(ctc, body_hex_digest) ==
    IF ctc.ok /\ ctc.val[1] = APPLICATION_X_WWW_FORM_URLENCODED
    THEN SHA256_EMPTY ELSE body_hex_digest

\* The canonical request from the header lines on: the keys of signed in
\* the order of the BTreeMap are keys.
CanonicalRequestTail(req, signed, keys, body_hex_digest) ==
    Try(HeaderLines(signed, keys, <<>>), LAMBDA lines :
        Ok(lines \o <<LF>> \o join(keys, <<";">>) \o <<LF>>
               \o PayloadLine(get_content_type_and_charset(req), body_hex_digest)))

get_canonical_request(req) ==
    Try(get_canonical_uri_path(req), LAMBDA canonical_uri_path :
    Try(get_canonical_query_string(req), LAMBDA canonical_query_string :
    Try(get_body_digest(req), LAMBDA body_hex_digest :
    Try(get_signed_headers(req), LAMBDA signed :
    Try(CanonicalRequestTail(req, signed, SortStrings(SetToSeq(DOMAIN signed)),
                             body_hex_digest), LAMBDA tail :
        Ok(req.request_method \o <<LF>> \o canonical_uri_path \o <<LF>>
               \o canonical_query_string \o <<LF>> \o tail))))))

get_string_to_sign(req) ==
    Try(get_request_timestamp(req), LAMBDA timestamp :
    Try(get_credential_scope(req), LAMBDA credential_scope :
    Try(get_canonical_request(req), LAMBDA canonical_request :
        Ok(AWS4_HMAC_SHA256 \o <<LF>> \o FormatCompact(timestamp) \o <<LF>>
               \o credential_scope \o <<LF>>
               \o hex_encode(digest(as_bytes(canonical_request)))))))

\* The HMAC chain of get_expected_signature, lines 788-806.
SigningChain(req, secret, req_date, string_to_sign) ==
    hex_encode(hmac_sign(
        hmac_sign(
            hmac_sign(
                hmac_sign(
                    hmac_sign(as_bytes(<<"A", "W", "S", "4">> \o secret), as_bytes(req_date)),
                    as_bytes(req.region)),
                as_bytes(req.service)),
            as_bytes(AWS4_REQUEST)),
        as_bytes(string_to_sign)))

\* get_expected_signature after secret_key_fn has returned the secret key:
\* the timestamp, the string to sign and the HMAC chain.
SignatureWithKey(req, secret) ==
    Try(get_request_timestamp(req), LAMBDA timestamp :
    Try(get_string_to_sign(req), LAMBDA string_to_sign :
        Ok(SigningChain(req, secret, FormatYmd(timestamp), string_to_sign))))

(***************************************************************************)
(* verify_at: the skew check.  A Duration is a number of days and seconds; *)
(* the bounds of the window are DateTimes as a day number and a second of  *)
(* the day, so that a sum outside the range of DateTime can be told.       *)
(***************************************************************************)
\* Duration::minutes(n) and Duration::days(n)
DurationMinutes(n) == [days |-> 0, secs |-> n * 60]
DurationDays(n) == [days |-> n, secs |-> 0]

\* The DateTime of a timestamp in seconds.
DateTimeOf(ts) == [days |-> ts \div 86400, secs |-> ts % 86400]

\* a < b for DateTimes
DateTimeLess(a, b) == a.days < b.days \/ (a.days = b.days /\ a.secs < b.secs)

\* The instant ts + sign * mm, whether or not a DateTime can hold it.
DateTimePlus(ts, mm, sign) ==
    LET s == (ts % 86400) + sign * mm.secs IN
    [days |-> (ts \div 86400) + sign * mm.days + (s \div 86400), secs |-> s % 86400]

\* A DateTime holds the days from -262144-01-01 to 262143-12-31.
InDateTimeRange(dt) ==
    /\ dt.days >= DaysFromCivil(0 - 262144, 1, 1)
    /\ dt.days <= DaysFromCivil(262143, 12, 31)

\* DateTime::checked_add_signed and DateTime::checked_sub_signed: None on overflow.
checked_add_signed(ts, mm) ==
    LET dt == DateTimePlus(ts, mm, 1) IN IF InDateTimeRange(dt) THEN Some(dt) ELSE None

checked_sub_signed(ts, mm) ==
    LET dt == DateTimePlus(ts, mm, 0 - 1) IN IF InDateTimeRange(dt) THEN Some(dt) ELSE None

\* Option::unwrap_or
unwrap_or(opt, default) == IF opt = None THEN default ELSE opt[1]

\* format!("{}", dt) of a DateTime<Utc>: 2015-08-30 12:10:00 UTC
FormatDateTime(dt) ==
    FormatDate(CivilFromDays(dt.days), <<"-">>) \o <<" ">>
        \o Pad(dt.secs \div 3600, 2) \o <<":">> \o Pad((dt.secs % 3600) \div 60, 2)
        \o <<":">> \o Pad(dt.secs % 60, 2) \o <<" ", "U", "T", "C">>

\* The error of a request timestamp outside the window.
TimestampOutOfRange(req_ts, min_ts, max_ts) ==
    Err("TimestampOutOfRange",
        <<"m", "i", "n", "i", "m", "u", "m", " ">> \o FormatDateTime(min_ts) \o <<",", " ", "m", "a", "x", "i", "m", "u", "m", " ">> \o FormatDateTime(max_ts)
            \o <<",", " ", "r", "e", "c", "e", "i", "v", "e", "r", "d", " ">> \o FormatDateTime(req_ts))

\* A window check that compares the request timestamp with max_ts only.
WindowCheckUpperBoundOnly(req_ts, min_ts, max_ts) ==
    IF DateTimeLess(max_ts, req_ts)
    THEN TimestampOutOfRange(req_ts, min_ts, max_ts)
    ELSE Ok(<<>>)

\* verify_at, lines 829-835
WindowCheck(req_ts, min_ts, max_ts) ==
    IF DateTimeLess(req_ts, min_ts) \/ DateTimeLess(max_ts, req_ts)
    THEN TimestampOutOfRange(req_ts, min_ts, max_ts)
    ELSE Ok(<<>>)

\* The first statement of verify_at, lines 822-836: Ok(()) when the request
\* passes the skew check or there is none to make.
SkewCheck(req, srv, mm) ==
    IF mm = None THEN Ok(<<>>)
    ELSE Try(get_request_timestamp(req), LAMBDA req_ts :
             WindowCheck(DateTimeOf(req_ts),
                         unwrap_or(checked_sub_signed(srv, mm[1]), DateTimeOf(srv)),
                         unwrap_or(checked_add_signed(srv, mm[1]), DateTimeOf(srv))))

\* The last statement of verify_at.
CompareSignatures(expected, request_sig) ==
    IF expected # request_sig THEN
        Err("InvalidSignature", <<"E", "x", "p", "e", "c", "t", "e", "d", " ">> \o expected \o <<" ", "i", "n", "s", "t", "e", "a", "d", " ", "o", "f", " ">> \o request_sig)
    ELSE Ok(<<>>)

(***************************************************************************)
(* The requests, server times and allowed mismatches verified              *)
(***************************************************************************)
\* The access key the credential store knows, and its session token.
KnownAccessKey == <<"A", "K", "I", "D", "E", "X", "A", "M", "P", "L", "E">>
SessionToken == <<"T", "O", "K", "E", "N">>
SecretKeys == {<<"w", "J", "a", "l", "r", "X", "U", "t", "n", "F", "E", "M", "I", "/", "K", "7", "M", "D", "E", "N", "G", "+", "b", "P", "x", "R", "f", "i", "C", "Y", "E", "X", "A", "M", "P", "L", "E", "K", "E", "Y">>}

\* What secret_key_fn may return for an access key: the stored secret or an
\* I/O error for the known key, UnknownAccessKey for any other.
SecretKeyFnResults(ak, stored) ==
    IF ak = KnownAccessKey
    THEN {Ok(stored), Err("IO", <<"c", "o", "n", "n", "e", "c", "t", "i", "o", "n", " ", "r", "e", "s", "e", "t">>)}
    ELSE {Err("UnknownAccessKey", ak)}

RequestScope == <<"2", "0", "1", "5", "0", "8", "3", "0", "/", "u", "s", "-", "e", "a", "s", "t", "-", "1", "/", "s", "e", "r", "v", "i", "c", "e", "/", "a", "w", "s", "4", "_", "r", "e", "q", "u", "e", "s", "t">>
RequestCredentialValue == KnownAccessKey \o <<"/">> \o RequestScope

WithHeader(req, name, values) == [req EXCEPT !.headers = (name :> values) @@ req.headers]
WithoutHeader(req, name) ==
    [req EXCEPT !.headers = [h \in DOMAIN req.headers \ {name} |-> req.headers[h]]]

\* The request before it is signed.
UnsignedRequest ==
    [request_method |-> <<"G", "E", "T">>, uri_path |-> <<"/">>, query_string |-> <<"P", "a", "r", "a", "m", "1", "=", "v", "a", "l", "u", "e", "1">>,
     headers |-> (<<"h", "o", "s", "t">> :> <<<<"e", "x", "a", "m", "p", "l", "e", ".", "a", "m", "a", "z", "o", "n", "a", "w", "s", ".", "c", "o", "m">>>>)
                    @@ (X_AMZ_DATE_LOWER :> <<<<"2", "0", "1", "5", "0", "8", "3", "0", "T", "1", "2", "1", "0", "0", "0", "Z">>>>),
     body |-> <<>>, region |-> <<"u", "s", "-", "e", "a", "s", "t", "-", "1">>, service |-> <<"s", "e", "r", "v", "i", "c", "e">>]

AuthorizationValue(cred, signed, sig) ==
    <<"A", "W", "S", "4", "-", "H", "M", "A", "C", "-", "S", "H", "A", "2", "5", "6", " ", "C", "r", "e", "d", "e", "n", "t", "i", "a", "l", "=">> \o cred \o <<",", " ", "S", "i", "g", "n", "e", "d", "H", "e", "a", "d", "e", "r", "s", "=">> \o signed
        \o <<",", " ", "S", "i", "g", "n", "a", "t", "u", "r", "e", "=">> \o sig

\* The signature of a request that can be signed, 0000 for one that cannot.
SignatureOr(sig) == IF sig.ok THEN sig.val ELSE <<"0", "0", "0", "0">>

\* req signed in header form by the holder of secret: the Authorization
\* header carries the credential, the signed headers and the signature.
SignHeaderForm(req, cred, signed, secret) ==
    WithHeader(req, AUTHORIZATION,
        <<AuthorizationValue(cred, signed,
            SignatureOr(SignatureWithKey(
                WithHeader(req, AUTHORIZATION, <<AuthorizationValue(cred, signed, <<>>)>>),
                secret)))>>)

\* req with the credential cred, the signature of its Authorization header
\* and a session token repeated as the headers Credential, Signature and
\* x-amz-security-token.
WithCredentialHeaders(req, cred) ==
    WithHeader(WithHeader(WithHeader(req, CREDENTIAL, <<cred>>),
                   SIGNATURE, <<get_authorization_header_parameters(req).val[SIGNATURE]>>),
               X_AMZ_SECURITY_TOKEN_LOWER, <<SessionToken>>)

\* req signed by the holder of secret, in header form and with the headers
\* of WithCredentialHeaders.
Signed(req, cred, signed, secret) ==
    WithCredentialHeaders(SignHeaderForm(req, cred, signed, secret), cred)

\* The unsigned request with the date sources named in sources: "q" the
\* X-Amz-Date query parameter, "h" the x-amz-date header, "d" the date
\* header, each with a time of its own.
DateSources(sources) ==
    [UnsignedRequest EXCEPT
        !.query_string = IF "q" \in sources THEN <<"X", "-", "A", "m", "z", "-", "D", "a", "t", "e", "=", "2", "0", "1", "5", "0", "8", "3", "0", "T", "1", "2", "0", "0", "0", "0", "Z">>
                         ELSE <<"P", "a", "r", "a", "m", "1", "=", "v", "a", "l", "u", "e", "1">>,
        !.headers = [name \in {<<"h", "o", "s", "t">>}
                        \cup (IF "h" \in sources THEN {X_AMZ_DATE_LOWER} ELSE {})
                        \cup (IF "d" \in sources THEN {DATE} ELSE {}) |->
                     IF name = X_AMZ_DATE_LOWER THEN <<<<"2", "0", "1", "5", "0", "8", "3", "0", "T", "1", "2", "1", "0", "0", "0", "Z">>>>
                     ELSE IF name = DATE THEN <<<<"S", "u", "n", ",", " ", "3", "0", " ", "A", "u", "g", " ", "2", "0", "1", "5", " ", "1", "2", ":", "2", "0", ":", "0", "0", " ", "G", "M", "T">>>>
                     ELSE <<<<"e", "x", "a", "m", "p", "l", "e", ".", "a", "m", "a", "z", "o", "n", "a", "w", "s", ".", "c", "o", "m">>>>]]

\* The requests made from the request accepted: one field or header of it
\* changed, the signature left as it was.
Variants(accepted) ==
    {accepted,
     WithHeader(accepted, SIGNATURE, <<<<"0", "0", "0", "0">>>>),
     WithoutHeader(accepted, X_AMZ_SECURITY_TOKEN_LOWER),
     [WithoutHeader(accepted, CREDENTIAL) EXCEPT
         !.query_string = <<"X", "-", "A", "m", "z", "-", "C", "r", "e", "d", "e", "n", "t", "i", "a", "l", "=">> \o RequestCredentialValue]}
    \cup {[accepted EXCEPT !.uri_path = p] : p \in {<<"x">>, <<"/", ".", ".", "/", "a">>, <<"/", "%", "z", "z">>}}
    \cup {WithHeader(accepted, X_AMZ_DATE_LOWER, values) :
            values \in {<<>>, <<<<"2", "0", "1", "5", "0", "8", "3", "0", "T", "1", "2", "1", "0", "0", "0", "Z">>, <<"2", "0", "1", "5", "0", "8", "3", "0", "T", "1", "2", "1", "5", "0", "0", "Z">>>>, <<<<"y", "e", "s", "t", "e", "r", "d", "a", "y">>>>,
                        <<<<"2", "0", "1", "5", "-", "0", "8", "-", "3", "0", "T", "1", "2", ":", "1", "0", ":", "0", "0", "Z">>>>}}
    \cup {WithHeader(accepted, CREDENTIAL, <<c>>) :
            c \in {KnownAccessKey \o <<"/", "2", "0", "1", "5", "0", "8", "3", "1", "/", "u", "s", "-", "e", "a", "s", "t", "-", "1", "/", "s", "e", "r", "v", "i", "c", "e", "/", "a", "w", "s", "4", "_", "r", "e", "q", "u", "e", "s", "t">>,
                   KnownAccessKey \o <<"/", "2", "0", "1", "5", "0", "8", "3", "0", "/", "u", "s", "-", "w", "e", "s", "t", "-", "2", "/", "s", "e", "r", "v", "i", "c", "e", "/", "a", "w", "s", "4", "_", "r", "e", "q", "u", "e", "s", "t">>,
                   KnownAccessKey \o <<"/", "2", "0", "1", "5", "0", "8", "3", "0", "/", "u", "s", "-", "e", "a", "s", "t", "-", "1", "/", "i", "a", "m", "/", "a", "w", "s", "4", "_", "r", "e", "q", "u", "e", "s", "t">>,
                   KnownAccessKey \o <<"/", "2", "0", "1", "5", "0", "8", "3", "0", "/", "u", "s", "-", "e", "a", "s", "t", "-", "1", "/", "s", "e", "r", "v", "i", "c", "e", "/", "a", "w", "s", "4", "_", "r", "e", "q", "u", "e", "s", "t", "/">>,
                   KnownAccessKey \o <<"/", "2", "0", "1", "5", "0", "8", "3", "0", "/", "u", "s", "-", "e", "a", "s", "t", "-", "1", "/", "s", "e", "r", "v", "i", "c", "e">>,
                   KnownAccessKey,
                   KnownAccessKey \o <<"/">>}}

\* <<request, credential, signed headers>> of the requests signed afresh.
SignedAfresh ==
    {<<UnsignedRequest, RequestCredentialValue, <<"x", "-", "a", "m", "z", "-", "d", "a", "t", "e">>>>,
     <<UnsignedRequest, <<"A", "K", "I", "D", "O", "T", "H", "E", "R", "/">> \o RequestScope, <<"h", "o", "s", "t", ";", "x", "-", "a", "m", "z", "-", "d", "a", "t", "e">>>>,
     <<[UnsignedRequest EXCEPT !.uri_path = <<"/", "a", "/", ".", "/", "b", "/", "/", "c">>], RequestCredentialValue,
       <<"h", "o", "s", "t", ";", "x", "-", "a", "m", "z", "-", "d", "a", "t", "e">>>>}
    \cup {<<WithHeader([UnsignedRequest EXCEPT !.request_method = <<"P", "O", "S", "T">>, !.body = <<"a", "=", "b">>],
                       CONTENT_TYPE, <<ct>>),
            RequestCredentialValue, <<"h", "o", "s", "t", ";", "x", "-", "a", "m", "z", "-", "d", "a", "t", "e">>>> :
            ct \in {<<"a", "p", "p", "l", "i", "c", "a", "t", "i", "o", "n", "/", "x", "-", "w", "w", "w", "-", "f", "o", "r", "m", "-", "u", "r", "l", "e", "n", "c", "o", "d", "e", "d", ";", " ", "c", "h", "a", "r", "s", "e", "t", "=", "l", "a", "t", "i", "n", "1">>,
                    <<"a", "p", "p", "l", "i", "c", "a", "t", "i", "o", "n", "/", "x", "-", "w", "w", "w", "-", "f", "o", "r", "m", "-", "u", "r", "l", "e", "n", "c", "o", "d", "e", "d", ";", " ", "c", "h", "a", "r", "s", "e", "t", "=", "U", "T", "F", "-", "8">>}}
    \cup {<<DateSources(sources), RequestCredentialValue, <<"h", "o", "s", "t">>>> :
            sources \in SUBSET {"q", "h", "d"}}

\* The requests verified, signed by the holder of secret: the request in
\* header form, the request accepted and its variants, and the requests
\* signed afresh.
RequestsSignedWith(secret) ==
    {SignHeaderForm(UnsignedRequest, RequestCredentialValue, <<"h", "o", "s", "t", ";", "x", "-", "a", "m", "z", "-", "d", "a", "t", "e">>, secret)}
    \cup Variants(Signed(UnsignedRequest, RequestCredentialValue, <<"h", "o", "s", "t", ";", "x", "-", "a", "m", "z", "-", "d", "a", "t", "e">>, secret))
    \cup {Signed(r[1], r[2], r[3], secret) : r \in SignedAfresh}

Requests == UNION {RequestsSignedWith(secret) : secret \in SecretKeys}

\* The server times: within MaxDelta seconds of the request time of
\* 2015-08-30T12:10:00Z and of the two ends of a window of 15 minutes
\* around it, and 25 and 30 minutes after it.
MaxDelta == 1

RequestTime == ToTimestamp(2015, 8, 30, 12, 10, 0)

ServerTimes ==
    {RequestTime + w * 900 + e : w \in {0 - 1, 0, 1}, e \in (0 - MaxDelta)..MaxDelta}
    \cup {RequestTime + 1500, RequestTime + 1800}

AllowedMismatches == {None, Some(DurationMinutes(15)), Some(DurationDays(100000000))}

(***************************************************************************)
(* The state machine                                                       *)
(***************************************************************************)
Init ==
    /\ store_secret \in SecretKeys
    /\ request \in Requests
    /\ server_timestamp \in ServerTimes
    /\ allowed_mismatch \in AllowedMismatches
    /\ pc = "verify_at"
    /\ resolver_calls = <<>>
    /\ access_key = None
    /\ session_token = None
    /\ secret_key = None
    /\ expected_sig = None
    /\ verify_result = None
    /\ ret = None
    /\ AspenIdle
    /\ ResolverIdle
    /\ TlsIdle

\* verify_at returns result.
Return(result) ==
    /\ pc' = "done"
    /\ verify_result' = Some(result)

\* verify_at, lines 822-836: the skew check.
VerifyAtSkew ==
    /\ pc = "verify_at"
    /\ \E checked \in {SkewCheck(request, server_timestamp, allowed_mismatch)} :
       IF checked.ok
       THEN pc' = "get_access_key" /\ UNCHANGED verify_result
       ELSE Return(checked)
    /\ UNCHANGED <<aspen_vars, resolver_vars, tls_vars>>
    /\ UNCHANGED <<request, server_timestamp, allowed_mismatch, store_secret, resolver_calls,
                   access_key, session_token, secret_key, expected_sig, ret>>

\* get_expected_signature, line 781
ExpectedGetAccessKey ==
    /\ pc = "get_access_key"
    /\ \E got \in {get_access_key(request)} :
       IF got.ok
       THEN access_key' = Some(got.val) /\ pc' = "get_session_token"
            /\ UNCHANGED verify_result
       ELSE Return(got) /\ UNCHANGED access_key
    /\ UNCHANGED <<aspen_vars, resolver_vars, tls_vars>>
    /\ UNCHANGED <<request, server_timestamp, allowed_mismatch, store_secret, resolver_calls,
                   session_token, secret_key, expected_sig, ret>>

\* get_expected_signature, line 782
ExpectedGetSessionToken ==
    /\ pc = "get_session_token"
    /\ \E got \in {get_session_token(request)} :
       IF got.ok
       THEN session_token' = Some(got.val) /\ pc' = "secret_key_fn"
            /\ UNCHANGED verify_result
       ELSE Return(got) /\ UNCHANGED session_token
    /\ UNCHANGED <<aspen_vars, resolver_vars, tls_vars>>
    /\ UNCHANGED <<request, server_timestamp, allowed_mismatch, store_secret, resolver_calls,
                   access_key, secret_key, expected_sig, ret>>

\* get_expected_signature, line 783: the call of secret_key_fn.
ExpectedSecretKeyFn ==
    /\ pc = "secret_key_fn"
    /\ resolver_calls' = Append(resolver_calls, <<access_key[1], session_token[1]>>)
    /\ \E got \in SecretKeyFnResults(access_key[1], store_secret) :
          IF got.ok
          THEN secret_key' = Some(got.val) /\ pc' = "string_to_sign"
               /\ UNCHANGED verify_result
          ELSE Return(got) /\ UNCHANGED secret_key
    /\ UNCHANGED <<aspen_vars, resolver_vars, tls_vars>>
    /\ UNCHANGED <<request, server_timestamp, allowed_mismatch, store_secret,
                   access_key, session_token, expected_sig, ret>>

\* get_expected_signature, lines 784-806: the timestamp, the string to sign
\* (the canonical request within it) and the HMAC chain.
ExpectedSign ==
    /\ pc = "string_to_sign"
    /\ \E got \in {SignatureWithKey(request, secret_key[1])} :
       IF got.ok
       THEN expected_sig' = Some(got.val) /\ pc' = "get_request_signature"
            /\ UNCHANGED verify_result
       ELSE Return(got) /\ UNCHANGED expected_sig
    /\ UNCHANGED <<aspen_vars, resolver_vars, tls_vars>>
    /\ UNCHANGED <<request, server_timestamp, allowed_mismatch, store_secret, resolver_calls,
                   access_key, session_token, secret_key, ret>>

\* verify_at, lines 839-849
VerifyAtCompare ==
    /\ pc = "get_request_signature"
    /\ \E request_sig \in {get_request_signature(request)} :
       IF request_sig.ok
       THEN Return(CompareSignatures(expected_sig[1], request_sig.val))
       ELSE Return(request_sig)
    /\ UNCHANGED <<aspen_vars, resolver_vars, tls_vars>>
    /\ UNCHANGED <<request, server_timestamp, allowed_mismatch, store_secret, resolver_calls,
                   access_key, session_token, secret_key, expected_sig, ret>>

\* A call of one operation of the trait on the request, outside verify_at.
Call(op, result) ==
    /\ pc = "verify_at"
    /\ pc' = "returned"
    /\ ret' = Some([op |-> op, result |-> result])
    /\ UNCHANGED <<aspen_vars, resolver_vars, tls_vars>>
    /\ UNCHANGED <<request, server_timestamp, allowed_mismatch, store_secret, resolver_calls,
                   access_key, session_token, secret_key, expected_sig, verify_result>>

CallGetRequestTimestamp == Call("get_request_timestamp", get_request_timestamp(request))
CallGetAccessKey == Call("get_access_key", get_access_key(request))
CallGetSessionToken == Call("get_session_token", get_session_token(request))
CallGetRequestSignature == Call("get_request_signature", get_request_signature(request))

Next ==
    \/ VerifyAtSkew
    \/ ExpectedGetAccessKey
    \/ ExpectedGetSessionToken
    \/ ExpectedSecretKeyFn
    \/ ExpectedSign
    \/ VerifyAtCompare
    \/ CallGetRequestTimestamp
    \/ CallGetAccessKey
    \/ CallGetSessionToken
    \/ CallGetRequestSignature

Spec == Init /\ [][Next]_vars


(***************************************************************************)
(* Observations of a run                                                   *)
(***************************************************************************)
\* verify_at has returned an error of the kind.
Rejected(kind) ==
    verify_result # None /\ ~verify_result[1].ok /\ verify_result[1].kind = kind

\* verify_at has returned Ok(()).
Accepted == verify_result # None /\ verify_result[1].ok

\* verify_at is past its skew check.
SkewChecked == pc \notin {"verify_at", "returned"}

\* The operation op of the trait was called and has returned.
Called(op) == ret # None /\ ret[1].op = op

\* The request has a header of the name with at least one value.
HasHeader(req, name) == name \in DOMAIN req.headers /\ Len(req.headers[name]) > 0

(***************************************************************************)
(* The properties                                                          *)
(***************************************************************************)
\* C1: within one verify_at, secret_key_fn is called only for a request
\* whose canonicalization succeeds: a request with an invalid URI path or an
\* unsupported form charset fails without a call of the resolver.
C1_ResolverOnlyAfterCanonicalization ==
    resolver_calls # <<>> => get_canonical_request(request).ok

\* C2: the detail of an InvalidSignature error of verify_at is a fixed
\* string: it does not contain the expected signature.
C2_InvalidSignatureDetailFixed ==
    Rejected("InvalidSignature") =>
        ~Contains(verify_result[1].detail, expected_sig[1])

\* C3: for a request in header form (an Authorization header with the
\* parameters Credential, SignedHeaders and Signature, no headers Credential
\* or Signature of its own and no X-Amz- query parameter), get_access_key
\* returns the access key of the Credential parameter, get_request_signature
\* returns the Signature parameter, and verify_at fails for no reason other
\* than the server time or the credential store.
C3_HeaderFormAccessors ==
    \A ahp \in {get_authorization_header_parameters(request)} :
        (/\ ahp.ok
         /\ {CREDENTIAL, SIGNEDHEADERS, SIGNATURE} \subseteq DOMAIN ahp.val
         /\ CREDENTIAL \notin DOMAIN request.headers
         /\ SIGNATURE \notin DOMAIN request.headers
         /\ ~Contains(request.query_string, <<"X", "-", "A", "m", "z", "-">>))
        =>
        /\ Called("get_access_key") =>
               ret[1].result = Ok(splitn2(ahp.val[CREDENTIAL], "/")[1])
        /\ Called("get_request_signature") =>
               ret[1].result = Ok(ahp.val[SIGNATURE])
        /\ verify_result # None =>
               \/ verify_result[1].ok
               \/ verify_result[1].kind \in {"TimestampOutOfRange", "IO"}

\* C4: verify_at accepts no request whose signed-headers list lacks host.
C4_HostAlwaysSigned ==
    Accepted =>
        \A signed_headers \in {SignedHeadersList(request)} :
            /\ signed_headers.ok
            /\ \E i \in DOMAIN split(signed_headers.val, ";") :
                   split(signed_headers.val, ";")[i] = <<"h", "o", "s", "t">>

\* C5: with an allowed mismatch D, verify_at returns TimestampOutOfRange
\* exactly when the request timestamp is before server_timestamp - D or
\* after server_timestamp + D.
C5_SkewWindowExact ==
    (SkewChecked /\ allowed_mismatch # None) =>
        \A req_ts \in {get_request_timestamp(request)} :
            req_ts.ok =>
                (Rejected("TimestampOutOfRange") <=>
                    \/ DateTimeLess(DateTimeOf(req_ts.val),
                                    DateTimePlus(server_timestamp, allowed_mismatch[1], 0 - 1))
                    \/ DateTimeLess(DateTimePlus(server_timestamp, allowed_mismatch[1], 1),
                                    DateTimeOf(req_ts.val)))

\* C6: with allowed_mismatch None a request whose timestamp differs from
\* the server time by more than 15 minutes is rejected with
\* TimestampOutOfRange.
C6_DefaultSkewFifteenMinutes ==
    (SkewChecked /\ allowed_mismatch = None) =>
        \A req_ts \in {get_request_timestamp(request)} :
            (/\ req_ts.ok
             /\ \/ req_ts.val - server_timestamp > 15 * 60
                \/ server_timestamp - req_ts.val > 15 * 60)
            => Rejected("TimestampOutOfRange")

\* C7 as the scenario states it: a request dated 20150830T121000Z verified
\* with an allowed mismatch of 15 minutes fails with TimestampOutOfRange at
\* the server time 20150830T124000Z and passes the skew check at
\* 20150830T123500Z.
C7_ScenarioS6 ==
    (/\ SkewChecked
     /\ allowed_mismatch = Some(DurationMinutes(15))
     /\ get_request_timestamp(request) = Ok(RequestTime))
    =>
    /\ server_timestamp = RequestTime + 30 * 60 => Rejected("TimestampOutOfRange")
    /\ server_timestamp = RequestTime + 25 * 60 => ~Rejected("TimestampOutOfRange")

\* C7: a request dated 20150830T121000Z verified with an allowed mismatch
\* of 15 minutes fails with TimestampOutOfRange at the server times
\* 20150830T124000Z and 20150830T123500Z, and passes the skew check at
\* 20150830T122500Z, the last server time of its window.
C7_ScenarioS6Window ==
    (/\ SkewChecked
     /\ allowed_mismatch = Some(DurationMinutes(15))
     /\ get_request_timestamp(request) = Ok(RequestTime))
    =>
    /\ server_timestamp \in {RequestTime + 30 * 60, RequestTime + 25 * 60}
           => Rejected("TimestampOutOfRange")
    /\ server_timestamp = RequestTime + 15 * 60 => ~Rejected("TimestampOutOfRange")

\* The request dated 20150830T121000Z is rejected at 20150830T123500Z.
C7_Witness ==
    /\ allowed_mismatch = Some(DurationMinutes(15))
    /\ get_request_timestamp(request) = Ok(RequestTime)
    /\ server_timestamp = RequestTime + 25 * 60
    /\ Rejected("TimestampOutOfRange")

\* C8: get_request_timestamp reads the X-Amz-Date query parameter when the
\* request has one, else the x-amz-date header when it has one, else the
\* date header: a timestamp returned is that of the first of the three the
\* request has, and with none of them no timestamp is returned.
C8_TimestampSourcePreference ==
    Called("get_request_timestamp") =>
        \A qp \in {get_query_parameters(request)} :
            qp.ok =>
                IF X_AMZ_DATE \in DOMAIN qp.val
                THEN ret[1].result.ok =>
                         ret[1].result = ParseDate(qp.val[X_AMZ_DATE][1])
                ELSE IF HasHeader(request, X_AMZ_DATE_LOWER)
                THEN ret[1].result.ok =>
                         ret[1].result = ParseDate(request.headers[X_AMZ_DATE_LOWER][1])
                ELSE IF HasHeader(request, DATE)
                THEN ret[1].result.ok =>
                         ret[1].result = ParseDate(request.headers[DATE][1])
                ELSE ~ret[1].result.ok

\* A request with all three sources, each with a time of its own, gets the
\* time of its X-Amz-Date query parameter, 12:00:00.
C8_Witness ==
    /\ Called("get_request_timestamp")
    /\ Contains(request.query_string, <<"X", "-", "A", "m", "z", "-", "D", "a", "t", "e", "=">>)
    /\ HasHeader(request, X_AMZ_DATE_LOWER)
    /\ HasHeader(request, DATE)
    /\ ret[1].result = Ok(ToTimestamp(2015, 8, 30, 12, 0, 0))

\* C9: for a request with no X-Amz-Date query parameter, no x-amz-date
\* header and no date header get_request_timestamp fails with
\* MissingParameter and the detail X-Amz-Date.
C9_NoDateSourceMissingParameter ==
    (/\ Called("get_request_timestamp")
     /\ ~Contains(request.query_string, <<"X", "-", "A", "m", "z", "-", "D", "a", "t", "e">>)
     /\ X_AMZ_DATE_LOWER \notin DOMAIN request.headers
     /\ DATE \notin DOMAIN request.headers)
    => ret[1].result = Err("MissingParameter", X_AMZ_DATE)

\* C10: get_access_key returns the access key of a credential only when
\* what follows the first '/' of the credential is the scope
\* YYYYMMDD/region/service/aws4_request of the date of the request
\* timestamp and the region and service of the server; with any other
\* credential it fails with InvalidCredential.
C10_CredentialScope ==
    Called("get_access_key") =>
        \A credential \in {RequestCredential(request)},
           ts \in {get_request_timestamp(request)} :
            (credential.ok /\ ts.ok) =>
                LET parts == splitn2(credential.val, "/")
                    scope == FormatYmd(ts.val) \o <<"/">> \o request.region \o <<"/">>
                                 \o request.service \o <<"/", "a", "w", "s", "4", "_", "r", "e", "q", "u", "e", "s", "t">>
                    matches == Len(parts) = 2 /\ parts[2] = scope
                IN /\ ret[1].result.ok => matches /\ ret[1].result.val = parts[1]
                   /\ ~matches => /\ ~ret[1].result.ok
                                  /\ ret[1].result.kind = "InvalidCredential"

\* A credential of another region is turned down.
C10_Witness ==
    /\ Called("get_access_key")
    /\ HasHeader(request, CREDENTIAL)
    /\ Contains(request.headers[CREDENTIAL][1], <<"/", "u", "s", "-", "w", "e", "s", "t", "-", "2", "/">>)
    /\ ~ret[1].result.ok
    /\ ret[1].result.kind = "InvalidCredential"

(***************************************************************************)
(* Calls of the operations that canonicalize a request, each on a request  *)
(* of its own family                                                       *)
(***************************************************************************)
\* The number of names in a signed-headers list.
MaxSignedHeaders == 3

\* The sequences of at most n elements of S.
RECURSIVE SeqsUpTo(_, _)
SeqsUpTo(S, n) ==
    IF n = 0 THEN {<<>>}
    ELSE SeqsUpTo(S, n - 1)
             \cup {Append(s, x) : s \in {t \in SeqsUpTo(S, n - 1) : Len(t) = n - 1}, x \in S}

\* The names a signed-headers list is made of: four headers of the request
\* (Z sorts before a by its bytes and after it in lower case) and one that
\* the request does not have.
SignedHeaderNames == {<<"h", "o", "s", "t">>, <<"x", "-", "a", "m", "z", "-", "d", "a", "t", "e">>, <<"a">>, <<"Z">>, <<"x", "-", "m", "i", "s", "s", "i", "n", "g">>}

\* The request with a header of two values and a header Z, and its
\* Authorization header listing the signed headers in list.
WithSignedHeaders(list) ==
    WithHeader(
        WithHeader(WithHeader(UnsignedRequest, <<"a">>, <<<<"1">>, <<"2">>>>), <<"Z">>, <<<<"z">>>>),
        AUTHORIZATION,
        <<AuthorizationValue(RequestCredentialValue, list, <<"0", "0", "0", "0">>)>>)

\* The requests of get_signed_headers: every list of at most
\* MaxSignedHeaders names, in the Authorization header, and three lists as
\* the X-Amz-SignedHeaders query parameter.
SignedHeaderRequests ==
    {WithSignedHeaders(join(names, <<";">>)) :
        names \in SeqsUpTo(SignedHeaderNames, MaxSignedHeaders)}
    \cup {[UnsignedRequest EXCEPT !.query_string = <<"X", "-", "A", "m", "z", "-", "S", "i", "g", "n", "e", "d", "H", "e", "a", "d", "e", "r", "s", "=">> \o list] :
            list \in {<<"h", "o", "s", "t">>, <<"h", "o", "s", "t", ";", "x", "-", "a", "m", "z", "-", "d", "a", "t", "e">>, <<"x", "-", "a", "m", "z", "-", "d", "a", "t", "e", "%", "3", "B", "h", "o", "s", "t">>}}

\* The four parameters of the presigned form, as fragments of a query string.
PresignedFragments ==
    <<<<"X", "-", "A", "m", "z", "-", "C", "r", "e", "d", "e", "n", "t", "i", "a", "l", "=", "A", "K", "I", "D", "E", "X", "A", "M", "P", "L", "E", "/", "2", "0", "1", "5", "0", "8", "3", "0", "/", "u", "s", "-", "e", "a", "s", "t", "-", "1", "/", "s", "e", "r", "v", "i", "c", "e", "/", "a", "w", "s", "4", "_", "r", "e", "q", "u", "e", "s", "t">>,
      <<"X", "-", "A", "m", "z", "-", "D", "a", "t", "e", "=", "2", "0", "1", "5", "0", "8", "3", "0", "T", "1", "2", "1", "0", "0", "0", "Z">>,
      <<"X", "-", "A", "m", "z", "-", "S", "i", "g", "n", "e", "d", "H", "e", "a", "d", "e", "r", "s", "=", "h", "o", "s", "t">>,
      <<"X", "-", "A", "m", "z", "-", "S", "i", "g", "n", "a", "t", "u", "r", "e", "=", "0", "0", "0", "0">>>>

\* The query string with counts[i] copies of the i-th fragment.
PresignedQuery(counts) ==
    join(Flatten([i \in DOMAIN PresignedFragments |->
                     [k \in 1..counts[i] |-> PresignedFragments[i]]]), <<"&">>)

\* The requests of the presigned form: each of the four parameters absent,
\* once or twice in the query string; the only header is host, or the
\* request has the headers the operations fall back to as well.
PresignedRequests ==
    {[r EXCEPT !.query_string = PresignedQuery(counts)] :
        r \in {WithoutHeader(UnsignedRequest, X_AMZ_DATE_LOWER),
               Signed(UnsignedRequest, RequestCredentialValue, <<"h", "o", "s", "t", ";", "x", "-", "a", "m", "z", "-", "d", "a", "t", "e">>,
                      CHOOSE secret \in SecretKeys : TRUE)},
        counts \in [1..4 -> {0, 1, 2}]}

\* The length of a generated URI path.
MaxPathLen == 7

\* The absolute paths of at most MaxPathLen characters made of '/', '.'
\* and 'a', the paths of the unit tests and of the documentation, paths
\* that do not begin with '/', and paths with escaped dots and slashes.
Paths ==
    {<<"/">> \o p : p \in SeqsUpTo({"/", ".", "a"}, MaxPathLen - 1)}
    \cup {<<"/", "f", "o", "o", "/", "/", "b", "a", "r", "/", ".", ".", "/", "b", "a", "z", "/", ".", "/">>, <<"/", "h", "e", "l", "l", "o", "/", "w", "o", "r", "l", "d">>, <<"/", "h", "e", "l", "l", "o", "/", ".", "/", "w", "o", "r", "l", "d">>, <<"/", "h", "e", "l", "l", "o", "/", "f", "o", "o", "/", ".", ".", "/", "w", "o", "r", "l", "d">>,
          <<"/", "h", "e", "l", "l", "o", "/", "%", "7", "7", "%", "6", "F", "%", "7", "2", "%", "6", "C", "%", "6", "4">>, <<"/", "h", "e", "l", "l", "o", "/", "w", "*", "r", "l", "d">>, <<"/", "h", "e", "l", "l", "o", "/", "w", "%", "2", "a", "r", "l", "d">>, <<"/", ".", ".">>, <<>>, <<"a", "/", "b">>,
          <<"a">>, <<".">>, <<".", ".">>, <<"a", "/">>, <<".", "/", "a">>, <<".", ".", "/", "a">>, <<"a", "/", "/", "b">>, <<"%", "2", "F", "a">>, <<" ", "/", "a">>,
          <<"/", "%", "2", "E">>, <<"/", "%", "2", "e", "%", "2", "E">>, <<"/", "a", "/", "%", "2", "E", "%", "2", "e">>, <<"/", "a", "/", "%", "2", "e", "/", "b">>, <<"/", "a", "/", ".", "%", "2", "E", "/", "b">>, <<"/", "%", "2", "E", "%", "2", "E", "/", "a">>,
          <<"/", "a", "%", "2", "F", "b">>, <<"/", "a", "%", "2", "F", "%", "2", "F", "b">>, <<"/", "a", "%", "2", "F", ".", ".", "%", "2", "F", "b">>, <<"/", "a", "/", "%", "2", "f", "b">>, <<"/", "a", "+", "b", "/", "%">>, <<"/", "%", "2", "5">>, <<"/", "%", "2", "5", "2", "5">>}

PathRequests == {[UnsignedRequest EXCEPT !.uri_path = p] : p \in Paths}

\* The length of a generated path component.
MaxComponentLen == 4

\* The components of at most MaxComponentLen characters made of '%', the
\* hex digits '6' and 'a', the letter 'g', '+' and '*': %66 and %6a are
\* escapes of unreserved bytes, %a6 and %aa of other bytes.
Components == SeqsUpTo({"%", "6", "a", "g", "+", "*"}, MaxComponentLen)

ComponentRequests == {[UnsignedRequest EXCEPT !.uri_path = <<"/">> \o c] : c \in Components}

\* The number of '&'-separated fragments of a generated query string.
MaxFragments == 3

\* The fragments: a key twice with different values, another key, a key
\* without '=', an empty value, an empty key, a value with '=', the empty
\* fragment, a key and a value to encode, and the signature parameter.
Fragments ==
    {<<"a", "=", "1">>, <<"a", "=", "2">>, <<"b", "=", "1">>, <<"a">>, <<"a", "=">>, <<"=", "1">>, <<"a", "=", "1", "=", "2">>, <<>>, <<"a", " ", "b", "=", "+">>, <<"X", "-", "A", "m", "z", "-", "S", "i", "g", "n", "a", "t", "u", "r", "e", "=", "0", "0">>}

Queries == {join(fragments, <<"&">>) : fragments \in SeqsUpTo(Fragments, MaxFragments)}

QueryRequests == {[UnsignedRequest EXCEPT !.query_string = q] : q \in Queries}

\* The values of the content-type header of a request with a body: none,
\* the form media type alone, with the charsets utf-8, UTF8 and latin1,
\* with an option that is not a charset, another media type, and the form
\* media type twice.
ContentTypes ==
    {<<>>,
     <<<<"a", "p", "p", "l", "i", "c", "a", "t", "i", "o", "n", "/", "x", "-", "w", "w", "w", "-", "f", "o", "r", "m", "-", "u", "r", "l", "e", "n", "c", "o", "d", "e", "d">>>>,
     <<<<"a", "p", "p", "l", "i", "c", "a", "t", "i", "o", "n", "/", "x", "-", "w", "w", "w", "-", "f", "o", "r", "m", "-", "u", "r", "l", "e", "n", "c", "o", "d", "e", "d", ";", " ", "c", "h", "a", "r", "s", "e", "t", "=", "u", "t", "f", "-", "8">>>>,
     <<<<"a", "p", "p", "l", "i", "c", "a", "t", "i", "o", "n", "/", "x", "-", "w", "w", "w", "-", "f", "o", "r", "m", "-", "u", "r", "l", "e", "n", "c", "o", "d", "e", "d", ";", "c", "h", "a", "r", "s", "e", "t", "=", "U", "T", "F", "8">>>>,
     <<<<"a", "p", "p", "l", "i", "c", "a", "t", "i", "o", "n", "/", "x", "-", "w", "w", "w", "-", "f", "o", "r", "m", "-", "u", "r", "l", "e", "n", "c", "o", "d", "e", "d", ";", " ", "c", "h", "a", "r", "s", "e", "t", "=", "l", "a", "t", "i", "n", "1">>>>,
     <<<<"a", "p", "p", "l", "i", "c", "a", "t", "i", "o", "n", "/", "x", "-", "w", "w", "w", "-", "f", "o", "r", "m", "-", "u", "r", "l", "e", "n", "c", "o", "d", "e", "d", ";", " ", "b", "o", "u", "n", "d", "a", "r", "y", "=", "x">>>>,
     <<<<"t", "e", "x", "t", "/", "p", "l", "a", "i", "n">>>>,
     <<<<"a", "p", "p", "l", "i", "c", "a", "t", "i", "o", "n", "/", "x", "-", "w", "w", "w", "-", "f", "o", "r", "m", "-", "u", "r", "l", "e", "n", "c", "o", "d", "e", "d">>, <<"a", "p", "p", "l", "i", "c", "a", "t", "i", "o", "n", "/", "x", "-", "w", "w", "w", "-", "f", "o", "r", "m", "-", "u", "r", "l", "e", "n", "c", "o", "d", "e", "d">>>>}

\* The bodies: empty, one and two parameters, the signature parameter, and
\* a fragment without '='.
Bodies == {<<>>, <<"a", "=", "1">>, <<"b", "=", "2", "&", "a", "=", "0">>, <<"X", "-", "A", "m", "z", "-", "S", "i", "g", "n", "a", "t", "u", "r", "e", "=", "0", "0">>, <<"c">>}

\* The POST requests with a body, signed over the host header alone.
FormRequests ==
    {[(IF content_type = <<>> THEN WithSignedHeaders(<<"h", "o", "s", "t">>)
       ELSE WithHeader(WithSignedHeaders(<<"h", "o", "s", "t">>), CONTENT_TYPE, content_type))
        EXCEPT !.request_method = <<"P", "O", "S", "T">>, !.query_string = q, !.body = body] :
        content_type \in ContentTypes, body \in Bodies,
        q \in {<<>>, <<"a", "=", "1">>, <<"b", "=", "1", "&", "X", "-", "A", "m", "z", "-", "S", "i", "g", "n", "a", "t", "u", "r", "e", "=", "0", "0">>}}

\* The values of a signed header: plain, with a leading space, a trailing
\* space, a run of two spaces inside, all three, and a byte that is not
\* UTF-8.
HeaderValues == {<<"1">>, <<" ", "1">>, <<"1", " ">>, <<"1", " ", " ", "2">>, <<" ", "1", " ", " ", " ", "2", " ">>, <<BYTE_FF>>}

\* The requests whose signed header a has two of these values, signed over
\* a alone, over a and host, and over a and Z.
HeaderValueRequests ==
    {WithHeader(WithSignedHeaders(list), <<"a">>, <<v1, v2>>) :
        list \in {<<"a">>, <<"a", ";", "h", "o", "s", "t">>, <<"a", ";", "Z">>}, v1 \in HeaderValues, v2 \in HeaderValues}

\* The requests the operations are called on.
CallRequests == SignedHeaderRequests \cup PresignedRequests \cup PathRequests
        \cup ComponentRequests \cup QueryRequests
        \cup FormRequests \cup HeaderValueRequests

CallInit ==
    /\ request \in CallRequests
    /\ store_secret \in SecretKeys
    /\ server_timestamp = RequestTime
    /\ allowed_mismatch = None
    /\ pc = "verify_at"
    /\ resolver_calls = <<>>
    /\ access_key = None
    /\ session_token = None
    /\ secret_key = None
    /\ expected_sig = None
    /\ verify_result = None
    /\ ret = None
    /\ AspenIdle
    /\ ResolverIdle
    /\ TlsIdle

CallGetSignedHeaders == Call("get_signed_headers", get_signed_headers(request))

CallCanonicalizeUriPath ==
    Call("canonicalize_uri_path", canonicalize_uri_path(request.uri_path))

\* canonicalize_uri_path, line 991: normalize_uri_path_component is called
\* on a component of the path.
CallNormalizeUriPathComponent ==
    /\ request.uri_path # <<>>
    /\ Head(request.uri_path) = "/"
    /\ \E component \in Range(Tail(split(CollapseRuns(request.uri_path, "/"), "/"))) :
           Call("normalize_uri_path_component",
                [arg |-> component, returned |-> normalize_uri_path_component(component)])

CallNormalizeQueryParameters ==
    Call("normalize_query_parameters", normalize_query_parameters(request.query_string))

CallGetCanonicalQueryString ==
    Call("get_canonical_query_string", get_canonical_query_string(request))

CallGetCanonicalRequest ==
    Call("get_canonical_request", get_canonical_request(request))

CallNext ==
    \/ CallGetSignedHeaders
    \/ CallGetAccessKey
    \/ CallGetRequestSignature
    \/ CallGetRequestTimestamp
    \/ CallCanonicalizeUriPath
    \/ CallNormalizeUriPathComponent
    \/ CallNormalizeQueryParameters
    \/ CallGetCanonicalQueryString
    \/ CallGetCanonicalRequest

CallSpec == CallInit /\ [][CallNext]_vars

\* The names of a signed-headers list are in ascending order of their
\* lower-cased forms.
SortedByLowercase(parts) ==
    \A i \in 1..(Len(parts) - 1) :
        ~StrLess(to_lowercase(parts[i + 1]), to_lowercase(parts[i]))

PresignedParameter ==
    [get_access_key |-> X_AMZ_CREDENTIAL, get_signed_headers |-> X_AMZ_SIGNEDHEADERS,
     get_request_signature |-> X_AMZ_SIGNATURE, get_request_timestamp |-> X_AMZ_DATE]

\* C12: in a request of the presigned form an operation fails with
\* MultipleParameterValues when the query parameter it reads appears more
\* than once, whatever headers the request has, and with MissingParameter
\* when the parameter does not appear.
C12_PresignedParametersOnce ==
    (/\ ret # None
     /\ ret[1].op \in DOMAIN PresignedParameter
     /\ Contains(request.query_string, <<"X", "-", "A", "m", "z", "-">>))
    =>
    \A qp \in {get_query_parameters(request)} :
        qp.ok =>
            LET p == PresignedParameter[ret[1].op] IN
            /\ (p \in DOMAIN qp.val /\ Len(qp.val[p]) > 1)
                   => ret[1].result = Err("MultipleParameterValues", p)
            /\ p \notin DOMAIN qp.val
                   => ~ret[1].result.ok /\ ret[1].result.kind = "MissingParameter"


\* The components a path keeps, read from left to right: a '.' is dropped
\* and a '..' takes the last component kept away.  <<TRUE, kept>>, or
\* <<FALSE, kept>> at a '..' with nothing kept.
RECURSIVE KeptComponents(_, _)
KeptComponents(components, kept) ==
    IF components = <<>> THEN <<TRUE, kept>>
    ELSE IF Head(components) = <<".">> THEN KeptComponents(Tail(components), kept)
    ELSE IF Head(components) = <<".", ".">> THEN
        IF kept = <<>> THEN <<FALSE, kept>>
        ELSE KeptComponents(Tail(components), SubSeq(kept, 1, Len(kept) - 1))
    ELSE KeptComponents(Tail(components), Append(kept, Head(components)))

\* C13: for an absolute path of unreserved characters canonicalize_uri_path
\* drops every '.' component and, for each '..', that component and the
\* nearest component kept before it; it fails with InvalidURIPath at a '..'
\* with no component kept before it; the slash at the end of the input
\* stays, and nothing kept gives "/".
C13_CanonicalPathDots ==
    (/\ Called("canonicalize_uri_path")
     /\ request.uri_path # <<>>
     /\ Head(request.uri_path) = "/"
     /\ \A i \in DOMAIN request.uri_path :
            request.uri_path[i] = "/" \/ is_rfc3986_unreserved(request.uri_path[i]))
    =>
    /\ LET kept == KeptComponents(Tail(split(CollapseRuns(request.uri_path, "/"), "/")), <<>>) IN
       IF ~kept[1] THEN ~ret[1].result.ok /\ ret[1].result.kind = "InvalidURIPath"
       ELSE ret[1].result = Ok(<<"/">> \o join(kept[2], <<"/">>))
    /\ request.uri_path = <<"/", "h", "e", "l", "l", "o", "/", "f", "o", "o", "/", ".", ".", "/", "w", "o", "r", "l", "d">> => ret[1].result = Ok(<<"/", "h", "e", "l", "l", "o", "/", "w", "o", "r", "l", "d">>)
    /\ request.uri_path = <<"/", "f", "o", "o", "/", "/", "b", "a", "r", "/", ".", ".", "/", "b", "a", "z", "/", ".", "/">> => ret[1].result = Ok(<<"/", "f", "o", "o", "/", "b", "a", "z", "/">>)
    /\ request.uri_path = <<"/", ".", ".">> => ~ret[1].result.ok
    /\ request.uri_path = <<"/", "a", "/", ".", ".", "/">> => ret[1].result = Ok(<<"/">>)
    /\ request.uri_path = <<"/", "a", "/", ".", "/">> => ret[1].result = Ok(<<"/", "a", "/">>)
    /\ request.uri_path = <<"/", "a", "/", "a", "/", ".", ".">> => ret[1].result = Ok(<<"/", "a">>)

\* The path of scenario S4.
C13_Witness ==
    /\ Called("canonicalize_uri_path")
    /\ request.uri_path = <<"/", "f", "o", "o", "/", "/", "b", "a", "r", "/", ".", ".", "/", "b", "a", "z", "/", ".", "/">>
    /\ ret[1].result = Ok(<<"/", "f", "o", "o", "/", "b", "a", "z", "/">>)


\* The first '%' of the component is not followed by two hex digits.
FirstEscapeMalformed(component) ==
    \E i \in DOMAIN component :
        /\ component[i] = "%"
        /\ \A j \in 1..(i - 1) : component[j] # "%"
        /\ \/ i + 2 > Len(component)
           \/ ~IsHexDigit(component[i + 1])
           \/ ~IsHexDigit(component[i + 2])

\* C14: normalize_uri_path_component returns the error InvalidURIPath for a
\* component with a '%' that is followed by fewer than two characters or by
\* two characters that are not both hex digits.
C14_MalformedEscapeRejected ==
    (Called("normalize_uri_path_component") /\ FirstEscapeMalformed(ret[1].result.arg))
    => /\ ~ret[1].result.returned.ok
       /\ ret[1].result.returned.kind = "InvalidURIPath"

\* Every '%' that starts an escape, reading from the left, is followed by
\* two hex digits.
RECURSIVE EscapesWellFormed(_)
EscapesWellFormed(s) ==
    IF s = <<>> THEN TRUE
    ELSE IF Head(s) # "%" THEN EscapesWellFormed(Tail(s))
    ELSE /\ Len(s) >= 3
         /\ IsHexDigit(s[2])
         /\ IsHexDigit(s[3])
         /\ EscapesWellFormed(SubSeq(s, 4, Len(s)))

\* What C15 says of a component with well-formed escapes, byte by byte.
RECURSIVE NormalizedByteByByte(_)
NormalizedByteByByte(s) ==
    IF s = <<>> THEN <<>>
    ELSE IF is_rfc3986_unreserved(Head(s)) THEN <<Head(s)>> \o NormalizedByteByByte(Tail(s))
    ELSE IF Head(s) = "%" THEN
        (LET byte == 16 * HexVal(s[2]) + HexVal(s[3]) IN
         IF byte >= 32 /\ byte <= 126 /\ is_rfc3986_unreserved(Chr(byte))
         THEN <<Chr(byte)>>
         ELSE <<"%", HexDigitsUpper[HexVal(s[2]) + 1], HexDigitsUpper[HexVal(s[3]) + 1]>>)
        \o NormalizedByteByByte(SubSeq(s, 4, Len(s)))
    ELSE IF Head(s) = "+" THEN <<"%", "2", "0">> \o NormalizedByteByByte(Tail(s))
    ELSE <<"%", HexDigitsUpper[(Ord(Head(s)) \div 16) + 1], HexDigitsUpper[(Ord(Head(s)) % 16) + 1]>>
             \o NormalizedByteByByte(Tail(s))

\* C15: normalize_uri_path_component maps a component with well-formed
\* escapes byte by byte: an unreserved byte to itself, %HH to its byte when
\* that is unreserved and else to %HH in upper case, '+' to %20, any other
\* byte to its %HH in upper case; a component of unreserved bytes comes back
\* unchanged, %77%6F%72%6C%64 gives world, w*rld and w%2arld give w%2Arld.
C15_NormalizeByteByByte ==
    Called("normalize_uri_path_component") =>
        /\ EscapesWellFormed(ret[1].result.arg) =>
               ret[1].result.returned = Ok(NormalizedByteByByte(ret[1].result.arg))
        /\ (\A i \in DOMAIN ret[1].result.arg : is_rfc3986_unreserved(ret[1].result.arg[i])) =>
               ret[1].result.returned = Ok(ret[1].result.arg)
        /\ ret[1].result.arg = <<"%", "7", "7", "%", "6", "F", "%", "7", "2", "%", "6", "C", "%", "6", "4">> => ret[1].result.returned = Ok(<<"w", "o", "r", "l", "d">>)
        /\ ret[1].result.arg \in {<<"w", "*", "r", "l", "d">>, <<"w", "%", "2", "a", "r", "l", "d">>} => ret[1].result.returned = Ok(<<"w", "%", "2", "A", "r", "l", "d">>)

\* The escape of '*' comes back in upper case.
C15_Witness ==
    /\ Called("normalize_uri_path_component")
    /\ ret[1].result.arg = <<"w", "%", "2", "a", "r", "l", "d">>
    /\ ret[1].result.returned = Ok(<<"w", "%", "2", "A", "r", "l", "d">>)

\* What C16 says of the fragments of a query string without escapes: the
\* map from each normalized key to its normalized values in their order,
\* the value of a fragment without '=' being empty.
RECURSIVE ParametersOf(_, _)
ParametersOf(fragments, m) ==
    IF fragments = <<>> THEN m
    ELSE IF Head(fragments) = <<>> THEN ParametersOf(Tail(fragments), m)
    ELSE
      LET parts == splitn2(Head(fragments), "=")
          value == IF Len(parts) = 2 THEN parts[2] ELSE <<>>
      IN ParametersOf(Tail(fragments),
                      MapPush(m, NormalizedByteByByte(parts[1]), NormalizedByteByByte(value)))

\* C16: normalize_query_parameters returns Ok with, for each non-empty
\* fragment, the part before its first '=' as the key and the rest as a
\* value, the empty value for a fragment without '='; the values of a key
\* are kept in their order, equal ones included.
C16_QueryParameters ==
    (Called("normalize_query_parameters") /\ EscapesWellFormed(request.query_string))
    => ret[1].result = Ok(ParametersOf(split(request.query_string, "&"), EmptyMap))


\* C17: no entry of a canonical query string has the key X-Amz-Signature,
\* whether it came from the query string or from a form body.
C17_SignatureNeverInQueryString ==
    (Called("get_canonical_query_string") /\ ret[1].result.ok)
    => \A entry \in Range(split(ret[1].result.val, "&")) :
           splitn2(entry, "=")[1] # X_AMZ_SIGNATURE

\* The sequences that hold every element of the finite set S once.
RECURSIVE Orderings(_)
Orderings(S) ==
    IF S = {} THEN {<<>>}
    ELSE UNION {{<<x>> \o s : s \in Orderings(S \ {x})} : x \in S}

\* The sequence s with the elements at two of its positions exchanged, for
\* every two positions: every order of s is reached by such exchanges.
Exchanged(s) ==
    {[s EXCEPT ![i] = s[j], ![j] = s[i]] : i \in DOMAIN s, j \in DOMAIN s}

\* The number of times e is in the sequence s.
Count(s, e) == Cardinality({i \in DOMAIN s : s[i] = e})

\* The 'key=value' strings of the fragments of a query string, the ones of
\* the key X-Amz-Signature left out.
QueryEntries(query_string) ==
    LET m == ParametersOf(split(query_string, "&"), EmptyMap) IN
    KeyValuePairsOf(m, CHOOSE ks \in Orderings(DOMAIN m \ {X_AMZ_SIGNATURE}) : TRUE)

\* C18: a canonical query string is its 'key=value' entries joined by '&'
\* in ascending byte order of the whole entry; without a form body the
\* entries are those of the query string, each as often as it is given;
\* and the result stays the same when two fragments of the query string
\* are exchanged, and for every order in which the keys of the map are
\* visited.
C18_SortedQueryString ==
    (Called("get_canonical_query_string") /\ ret[1].result.ok)
    => LET canonical == ret[1].result.val
           entries == IF canonical = <<>> THEN <<>> ELSE split(canonical, "&")
           expected == QueryEntries(request.query_string)
       IN
       /\ canonical = join(entries, <<"&">>)
       /\ \A i \in 1..(Len(entries) - 1) : ~StrLess(entries[i + 1], entries[i])
       /\ CONTENT_TYPE \notin DOMAIN request.headers
          => /\ Len(entries) = Len(expected)
             /\ \A e \in Range(expected) : Count(entries, e) = Count(expected, e)
       /\ \A fragments \in Exchanged(split(request.query_string, "&")) :
             get_canonical_query_string(
                 [request EXCEPT !.query_string = join(fragments, <<"&">>)]).val = canonical
       /\ CONTENT_TYPE \notin DOMAIN request.headers
          => \A ks \in Orderings(DOMAIN get_query_parameters(request).val \ {X_AMZ_SIGNATURE}) :
                 SortedQueryString(KeyValuePairsOf(get_query_parameters(request).val, ks)).val
                     = canonical

\* A canonical query string of three entries, two of them of one key, made
\* from a query string that gives them in descending order.
C18_Witness ==
    /\ Called("get_canonical_query_string")
    /\ request.query_string = <<"b", "=", "1", "&", "a", "=", "2", "&", "a", "=", "1">>
    /\ ret[1].result = Ok(<<"a", "=", "1", "&", "a", "=", "2", "&", "b", "=", "1">>)

\* The 'key=value' strings of the fragments of a form body.
BodyEntries(body) ==
    LET m == ParametersOf(split(body, "&"), EmptyMap) IN
    KeyValuePairsOf(m, CHOOSE ks \in Orderings(DOMAIN m) : TRUE)

\* Every non-empty fragment has an '=' and every escape is well formed:
\* the string can be normalized as query parameters.
WellFormedParameters(s) ==
    /\ EscapesWellFormed(s)
    /\ \A f \in Range(split(s, "&")) : f = <<>> \/ Contains(f, <<"=">>)

\* The request has one content-type header whose media type is the form
\* media type.
IsFormRequest(req) ==
    /\ HasHeader(req, CONTENT_TYPE)
    /\ Len(req.headers[CONTENT_TYPE]) = 1
    /\ trim(split(req.headers[CONTENT_TYPE][1], ";")[1]) = APPLICATION_X_WWW_FORM_URLENCODED

\* Every value of every header is UTF-8.
HeaderValuesUtf8(req) ==
    \A name \in DOMAIN req.headers : \A v \in Range(req.headers[name]) : IsUtf8(v)

C20_CanonicalHeaders ==
    (Called("get_canonical_request") /\ ret[1].result.ok)
    => LET signed == get_signed_headers(request).val
           names == SortLower(SetToSeq(DOMAIN signed))
           lines == split(ret[1].result.val, LF)
       IN
       /\ \A i \in DOMAIN names :
              lines[3 + i] = names[i] \o <<":">>
                  \o join([j \in DOMAIN signed[names[i]] |->
                              CollapseRuns(trim(signed[names[i]][j]), " ")], <<",">>)
       /\ lines[Len(names) + 5] = join(names, <<";">>)

\* C21: canonicalize_uri_path returns "/" for the empty path and for "/",
\* and fails with InvalidURIPath for every other path that does not begin
\* with '/'.
C21_EmptyAndRelativePaths ==
    Called("canonicalize_uri_path")
    => /\ request.uri_path \in {<<>>, <<"/">>} => ret[1].result = Ok(<<"/">>)
       /\ (request.uri_path # <<>> /\ Head(request.uri_path) # "/")
          => ~ret[1].result.ok /\ ret[1].result.kind = "InvalidURIPath"

\* canonicalize_uri_path has refused a path that begins with a component.
C21_Witness ==
    /\ Called("canonicalize_uri_path")
    /\ request.uri_path = <<"a", "/", "b">>
    /\ ~ret[1].result.ok
    /\ ret[1].result.kind = "InvalidURIPath"

\* The number of '/' added to a path at one place.
MaxExtraSlashes == 2

\* The result of an Ok, the kind of an error.
Outcome(result) == IF result.ok THEN result.val ELSE result.kind

\* s with k more characters c after its position i.
WithExtra(s, i, k, c) == SubSeq(s, 1, i) \o [j \in 1..k |-> c] \o SubSeq(s, i + 1, Len(s))

\* C22: an absolute path with one to MaxExtraSlashes more '/' after any of
\* its '/', the first one included, has the outcome of the path itself:
\* the same result or the same kind of error.
C22_SlashCollapsing ==
    (/\ Called("canonicalize_uri_path")
     /\ request.uri_path # <<>>
     /\ Head(request.uri_path) = "/")
    => \A i \in DOMAIN request.uri_path, k \in 1..MaxExtraSlashes :
           request.uri_path[i] = "/"
           => Outcome(canonicalize_uri_path(WithExtra(request.uri_path, i, k, "/")))
                  = Outcome(ret[1].result)

\* A path with runs of '/' at its start and inside has been canonicalized.
C22_Witness ==
    /\ Called("canonicalize_uri_path")
    /\ request.uri_path = <<"/", "/", "a", "/", "/", "a">>
    /\ ret[1].result = Ok(<<"/", "a", "/", "a">>)
    /\ canonicalize_uri_path(<<"/", "a", "/", "a">>) = ret[1].result

\* What a called operation returned: of normalize_uri_path_component the
\* result for the component it was given.
Returned ==
    IF ret[1].op = "normalize_uri_path_component" THEN ret[1].result.returned
    ELSE ret[1].result

\* C23: normalize_uri_path_component, canonicalize_uri_path,
\* normalize_query_parameters and get_canonical_request return an Ok or a
\* SignatureError for every request; none of them panics.
C23_NoAbort ==
    (/\ ret # None
     /\ ret[1].op \in {"normalize_uri_path_component", "canonicalize_uri_path",
                       "normalize_query_parameters", "get_canonical_request"})
    => Returned.ok \/ Returned.kind # "Panic"

\* C28: get_session_token returns Ok(None) for a request with neither the
\* X-Amz-Security-Token query parameter nor the x-amz-security-token
\* header, the query parameter when the request has it once, and otherwise
\* the header when the request has it with one value.
C28_SessionTokenOptional ==
    (Called("get_session_token") /\ get_query_parameters(request).ok)
    => LET parameters == get_query_parameters(request).val IN
       IF X_AMZ_SECURITY_TOKEN \in DOMAIN parameters THEN
           Len(parameters[X_AMZ_SECURITY_TOKEN]) = 1
           => ret[1].result = Ok(Some(parameters[X_AMZ_SECURITY_TOKEN][1]))
       ELSE IF HasHeader(request, X_AMZ_SECURITY_TOKEN_LOWER) THEN
           (/\ Len(request.headers[X_AMZ_SECURITY_TOKEN_LOWER]) = 1
            /\ IsUtf8(request.headers[X_AMZ_SECURITY_TOKEN_LOWER][1]))
           => ret[1].result = Ok(Some(request.headers[X_AMZ_SECURITY_TOKEN_LOWER][1]))
       ELSE ret[1].result = Ok(None)

\* C29: a path that canonicalize_uri_path returns begins with '/', holds
\* no '//', has no component '.' or '..', and is returned unchanged when
\* it is canonicalized again.
C29_CanonicalPathInvariant ==
    (Called("canonicalize_uri_path") /\ ret[1].result.ok)
    => LET path == ret[1].result.val IN
       /\ path # <<>>
       /\ Head(path) = "/"
       /\ ~Contains(path, <<"/", "/">>)
       /\ \A component \in Range(split(path, "/")) :
              component # <<".">> /\ component # <<".", ".">>
       /\ canonicalize_uri_path(path) = Ok(path)

\* A path whose '.' component is written as an escape has been
\* canonicalized, and one whose '..' component is.
C29_Witness ==
    /\ Called("canonicalize_uri_path")
    /\ request.uri_path = <<"/", "a", "/", "%", "2", "e", "/", "b">>
    /\ ret[1].result = Ok(<<"/", "a", "/", "b">>)
    /\ canonicalize_uri_path(<<"/", "a", "/", "%", "2", "E", "%", "2", "e">>) = Ok(<<"/">>)

(***************************************************************************)
(* scratchstack_aspen: the policy document parser and serializer.  A JSON  *)
(* document is the tree of its values, which is what is left of its text   *)
(* when the whitespace between the tokens is taken away: a string, null,   *)
(* an array of values, or an object, the sequence of its <<key, value>>    *)
(* members in the order of the text.                                       *)
(***************************************************************************)
JStr(s) == <<"string", s>>
JNull == <<"null">>
JArr(items) == <<"array", items>>
JObj(members) == <<"object", members>>

ToUpperChar(c) == IF IsLower(c) THEN Chr(Ord(c) - 32) ELSE c

\* serde's rename_all = "PascalCase" on a field name: the first letter and
\* every letter after a '_' in upper case, the '_' left out.
PascalCase(field) ==
    LET keep == SelectSeq([i \in 1..Len(field) |-> i], LAMBDA i : field[i] # "_") IN
    [k \in 1..Len(keep) |->
        IF keep[k] = 1 \/ field[keep[k] - 1] = "_"
        THEN ToUpperChar(field[keep[k]]) ELSE field[keep[k]]]

\* A field of a struct and its name in the document.
Renamed(field, name) == <<field, name>>
PascalCased(field) == <<field, PascalCase(field)>>

\* The fields of Policy, Statement, PrincipalMap and Condition in the order
\* of their declaration.
PolicyFields == <<PascalCased(<<"v", "e", "r", "s", "i", "o", "n">>), PascalCased(<<"i", "d">>), PascalCased(<<"s", "t", "a", "t", "e", "m", "e", "n", "t">>)>>

StatementFields == <<
    Renamed(<<"s", "i", "d">>, <<"S", "i", "d">>), Renamed(<<"e", "f", "f", "e", "c", "t">>, <<"E", "f", "f", "e", "c", "t">>),
    Renamed(<<"a", "c", "t", "i", "o", "n">>, <<"A", "c", "t", "i", "o", "n">>), Renamed(<<"n", "o", "t", "_", "a", "c", "t", "i", "o", "n">>, <<"N", "o", "t", "A", "c", "t", "i", "o", "n">>),
    Renamed(<<"r", "e", "s", "o", "u", "r", "c", "e">>, <<"R", "e", "s", "o", "u", "r", "c", "e">>), Renamed(<<"n", "o", "t", "_", "r", "e", "s", "o", "u", "r", "c", "e">>, <<"N", "o", "t", "R", "e", "s", "o", "u", "r", "c", "e">>),
    Renamed(<<"p", "r", "i", "n", "c", "i", "p", "a", "l">>, <<"P", "r", "i", "n", "c", "i", "p", "a", "l">>), Renamed(<<"n", "o", "t", "_", "p", "r", "i", "n", "c", "i", "p", "a", "l">>, <<"N", "o", "t", "P", "r", "i", "n", "c", "i", "p", "a", "l">>),
    Renamed(<<"c", "o", "n", "d", "i", "t", "i", "o", "n">>, <<"C", "o", "n", "d", "i", "t", "i", "o", "n">>)>>

PrincipalMapFields == <<
    Renamed(<<"a", "w", "s">>, <<"A", "W", "S">>), Renamed(<<"c", "a", "n", "o", "n", "i", "c", "a", "l", "_", "u", "s", "e", "r">>, <<"C", "a", "n", "o", "n", "i", "c", "a", "l", "U", "s", "e", "r">>),
    Renamed(<<"f", "e", "d", "e", "r", "a", "t", "e", "d">>, <<"F", "e", "d", "e", "r", "a", "t", "e", "d">>), Renamed(<<"s", "e", "r", "v", "i", "c", "e">>, <<"S", "e", "r", "v", "i", "c", "e">>)>>

ConditionFields == <<
    PascalCased(<<"s", "t", "r", "i", "n", "g", "_", "e", "q", "u", "a", "l", "s">>), PascalCased(<<"s", "t", "r", "i", "n", "g", "_", "n", "o", "t", "_", "e", "q", "u", "a", "l", "s">>),
    PascalCased(<<"s", "t", "r", "i", "n", "g", "_", "e", "q", "u", "a", "l", "s", "_", "i", "g", "n", "o", "r", "e", "_", "c", "a", "s", "e">>), PascalCased(<<"s", "t", "r", "i", "n", "g", "_", "n", "o", "t", "_", "e", "q", "u", "a", "l", "s", "_", "i", "g", "n", "o", "r", "e", "_", "c", "a", "s", "e">>),
    PascalCased(<<"s", "t", "r", "i", "n", "g", "_", "l", "i", "k", "e">>), PascalCased(<<"s", "t", "r", "i", "n", "g", "_", "n", "o", "t", "_", "l", "i", "k", "e">>),
    PascalCased(<<"n", "u", "m", "e", "r", "i", "c", "_", "e", "q", "u", "a", "l", "s">>), PascalCased(<<"n", "u", "m", "e", "r", "i", "c", "_", "n", "o", "t", "_", "e", "q", "u", "a", "l", "s">>),
    PascalCased(<<"n", "u", "m", "e", "r", "i", "c", "_", "l", "e", "s", "s", "_", "t", "h", "a", "n">>), PascalCased(<<"n", "u", "m", "e", "r", "i", "c", "_", "l", "e", "s", "s", "_", "t", "h", "a", "n", "_", "e", "q", "u", "a", "l", "s">>),
    PascalCased(<<"n", "u", "m", "e", "r", "i", "c", "_", "g", "r", "e", "a", "t", "e", "r", "_", "t", "h", "a", "n">>), PascalCased(<<"n", "u", "m", "e", "r", "i", "c", "_", "g", "r", "e", "a", "t", "e", "r", "_", "t", "h", "a", "n", "_", "e", "q", "u", "a", "l", "s">>),
    PascalCased(<<"d", "a", "t", "e", "_", "e", "q", "u", "a", "l", "s">>), PascalCased(<<"d", "a", "t", "e", "_", "n", "o", "t", "_", "e", "q", "u", "a", "l", "s">>),
    PascalCased(<<"d", "a", "t", "e", "_", "l", "e", "s", "s", "_", "t", "h", "a", "n">>), PascalCased(<<"d", "a", "t", "e", "_", "l", "e", "s", "s", "_", "t", "h", "a", "n", "_", "e", "q", "u", "a", "l", "s">>),
    PascalCased(<<"d", "a", "t", "e", "_", "g", "r", "e", "a", "t", "e", "r", "_", "t", "h", "a", "n">>), PascalCased(<<"d", "a", "t", "e", "_", "g", "r", "e", "a", "t", "e", "r", "_", "t", "h", "a", "n", "_", "e", "q", "u", "a", "l", "s">>),
    Renamed(<<"b", "o", "o", "l", "_", "e", "q", "u", "a", "l", "s">>, <<"B", "o", "o", "l">>), PascalCased(<<"b", "i", "n", "a", "r", "y", "_", "e", "q", "u", "a", "l", "s">>),
    PascalCased(<<"i", "p", "_", "a", "d", "d", "r", "e", "s", "s">>), PascalCased(<<"n", "o", "t", "_", "i", "p", "_", "a", "d", "d", "r", "e", "s", "s">>),
    PascalCased(<<"a", "r", "n", "_", "e", "q", "u", "a", "l", "s">>), PascalCased(<<"a", "r", "n", "_", "n", "o", "t", "_", "e", "q", "u", "a", "l", "s">>),
    PascalCased(<<"a", "r", "n", "_", "l", "i", "k", "e">>), PascalCased(<<"a", "r", "n", "_", "n", "o", "t", "_", "l", "i", "k", "e">>),
    PascalCased(<<"s", "t", "r", "i", "n", "g", "_", "e", "q", "u", "a", "l", "s", "_", "i", "f", "_", "e", "x", "i", "s", "t", "s">>), PascalCased(<<"s", "t", "r", "i", "n", "g", "_", "n", "o", "t", "_", "e", "q", "u", "a", "l", "s", "_", "i", "f", "_", "e", "x", "i", "s", "t", "s">>),
    PascalCased(<<"s", "t", "r", "i", "n", "g", "_", "e", "q", "u", "a", "l", "s", "_", "i", "g", "n", "o", "r", "e", "_", "c", "a", "s", "e", "_", "i", "f", "_", "e", "x", "i", "s", "t", "s">>), PascalCased(<<"s", "t", "r", "i", "n", "g", "_", "n", "o", "t", "_", "e", "q", "u", "a", "l", "s", "_", "i", "g", "n", "o", "r", "e", "_", "c", "a", "s", "e", "_", "i", "f", "_", "e", "x", "i", "s", "t", "s">>),
    PascalCased(<<"s", "t", "r", "i", "n", "g", "_", "l", "i", "k", "e", "_", "i", "f", "_", "e", "x", "i", "s", "t", "s">>), PascalCased(<<"s", "t", "r", "i", "n", "g", "_", "n", "o", "t", "_", "l", "i", "k", "e", "_", "i", "f", "_", "e", "x", "i", "s", "t", "s">>),
    PascalCased(<<"n", "u", "m", "e", "r", "i", "c", "_", "e", "q", "u", "a", "l", "s", "_", "i", "f", "_", "e", "x", "i", "s", "t", "s">>), PascalCased(<<"n", "u", "m", "e", "r", "i", "c", "_", "n", "o", "t", "_", "e", "q", "u", "a", "l", "s", "_", "i", "f", "_", "e", "x", "i", "s", "t", "s">>),
    PascalCased(<<"n", "u", "m", "e", "r", "i", "c", "_", "l", "e", "s", "s", "_", "t", "h", "a", "n", "_", "i", "f", "_", "e", "x", "i", "s", "t", "s">>), PascalCased(<<"n", "u", "m", "e", "r", "i", "c", "_", "l", "e", "s", "s", "_", "t", "h", "a", "n", "_", "e", "q", "u", "a", "l", "s", "_", "i", "f", "_", "e", "x", "i", "s", "t", "s">>),
    PascalCased(<<"n", "u", "m", "e", "r", "i", "c", "_", "g", "r", "e", "a", "t", "e", "r", "_", "t", "h", "a", "n", "_", "i", "f", "_", "e", "x", "i", "s", "t", "s">>), PascalCased(<<"n", "u", "m", "e", "r", "i", "c", "_", "g", "r", "e", "a", "t", "e", "r", "_", "t", "h", "a", "n", "_", "e", "q", "u", "a", "l", "s", "_", "i", "f", "_", "e", "x", "i", "s", "t", "s">>),
    PascalCased(<<"d", "a", "t", "e", "_", "e", "q", "u", "a", "l", "s", "_", "i", "f", "_", "e", "x", "i", "s", "t", "s">>), PascalCased(<<"d", "a", "t", "e", "_", "n", "o", "t", "_", "e", "q", "u", "a", "l", "s", "_", "i", "f", "_", "e", "x", "i", "s", "t", "s">>),
    PascalCased(<<"d", "a", "t", "e", "_", "l", "e", "s", "s", "_", "t", "h", "a", "n", "_", "i", "f", "_", "e", "x", "i", "s", "t", "s">>), PascalCased(<<"d", "a", "t", "e", "_", "l", "e", "s", "s", "_", "t", "h", "a", "n", "_", "e", "q", "u", "a", "l", "s", "_", "i", "f", "_", "e", "x", "i", "s", "t", "s">>),
    PascalCased(<<"d", "a", "t", "e", "_", "g", "r", "e", "a", "t", "e", "r", "_", "t", "h", "a", "n", "_", "i", "f", "_", "e", "x", "i", "s", "t", "s">>), PascalCased(<<"d", "a", "t", "e", "_", "g", "r", "e", "a", "t", "e", "r", "_", "t", "h", "a", "n", "_", "e", "q", "u", "a", "l", "s", "_", "i", "f", "_", "e", "x", "i", "s", "t", "s">>),
    Renamed(<<"b", "o", "o", "l", "_", "e", "q", "u", "a", "l", "s", "_", "i", "f", "_", "e", "x", "i", "s", "t", "s">>, <<"B", "o", "o", "l">>), PascalCased(<<"b", "i", "n", "a", "r", "y", "_", "e", "q", "u", "a", "l", "s", "_", "i", "f", "_", "e", "x", "i", "s", "t", "s">>),
    PascalCased(<<"i", "p", "_", "a", "d", "d", "r", "e", "s", "s", "_", "i", "f", "_", "e", "x", "i", "s", "t", "s">>), PascalCased(<<"n", "o", "t", "_", "i", "p", "_", "a", "d", "d", "r", "e", "s", "s", "_", "i", "f", "_", "e", "x", "i", "s", "t", "s">>),
    PascalCased(<<"a", "r", "n", "_", "e", "q", "u", "a", "l", "s", "_", "i", "f", "_", "e", "x", "i", "s", "t", "s">>), PascalCased(<<"a", "r", "n", "_", "n", "o", "t", "_", "e", "q", "u", "a", "l", "s", "_", "i", "f", "_", "e", "x", "i", "s", "t", "s">>),
    PascalCased(<<"a", "r", "n", "_", "l", "i", "k", "e", "_", "i", "f", "_", "e", "x", "i", "s", "t", "s">>), PascalCased(<<"a", "r", "n", "_", "n", "o", "t", "_", "l", "i", "k", "e", "_", "i", "f", "_", "e", "x", "i", "s", "t", "s">>),
    PascalCased(<<"n", "u", "l", "l">>)>>

\* The field that a key of the document names: the first field declared
\* with that name (the first arm of the match that the derive writes),
\* None for a key that names no field.
FieldOfKey(fields, key) ==
    LET at == {i \in DOMAIN fields : fields[i][2] = key} IN
    IF at = {} THEN None
    ELSE Some(fields[CHOOSE i \in at : \A j \in at : i <= j][1])

\* visit_map of a derived Deserialize: the values of the document by field;
\* a key that names no field is ignored (no deny_unknown_fields), a field
\* given twice is an error.
RECURSIVE VisitMap(_, _, _)
VisitMap(members, fields, found) ==
    IF members = <<>> THEN Ok(found)
    ELSE IF FieldOfKey(fields, Head(members)[1]) = None THEN
        VisitMap(Tail(members), fields, found)
    ELSE IF FieldOfKey(fields, Head(members)[1])[1] \in DOMAIN found THEN
        Err("duplicate_field", Head(members)[1])
    ELSE VisitMap(Tail(members), fields,
                  MapInsert(found, FieldOfKey(fields, Head(members)[1])[1], Head(members)[2]))

\* visit_seq of a derived Deserialize: an array gives the fields in the
\* order of their declaration, one value for each.
VisitSeq(items, fields) ==
    IF Len(items) # Len(fields) THEN Err("invalid_length", <<>>)
    ELSE Ok([field \in {fields[i][1] : i \in DOMAIN fields} |->
                items[CHOOSE i \in DOMAIN fields : fields[i][1] = field]])

DeserializeStruct(v, fields) ==
    IF v[1] = "object" THEN VisitMap(v[2], fields, EmptyMap)
    ELSE IF v[1] = "array" THEN VisitSeq(v[2], fields)
    ELSE Err("invalid_type", <<>>)

\* The results of a sequence or map of results: the values when all are
\* Ok, else one of the errors.
Collect(results) ==
    IF \E k \in DOMAIN results : ~results[k].ok
    THEN results[CHOOSE k \in DOMAIN results : ~results[k].ok]
    ELSE Ok([k \in DOMAIN results |-> results[k].val])

\* Option<T>::deserialize: null is None.
DeserializeOption(v, F(_)) ==
    IF v = JNull THEN Ok(None) ELSE Try(F(v), LAMBDA x : Ok(Some(x)))

\* A field of type Option<T>: None when the document does not give it.
OptionField(found, field, F(_)) ==
    IF field \in DOMAIN found THEN DeserializeOption(found[field], F) ELSE Ok(None)

\* A field of another type must be given.
RequiredField(found, field, F(_)) ==
    IF field \in DOMAIN found THEN F(found[field]) ELSE Err("missing_field", field)

\* Vec<T>::deserialize
DeserializeVec(v, F(_)) ==
    IF v[1] = "array" THEN Collect([i \in DOMAIN v[2] |-> F(v[2][i])])
    ELSE Err("invalid_type", <<>>)

\* An enum with #[serde(untagged)] and the variants Single(T), List(Vec<T>):
\* the first variant that the value deserializes as.
DeserializeSingleOrList(v, F(_)) ==
    IF F(v).ok THEN Ok(<<"Single", F(v).val>>)
    ELSE IF DeserializeVec(v, F).ok THEN Ok(<<"List", DeserializeVec(v, F).val>>)
    ELSE Err("untagged", <<"d", "a", "t", "a", " ", "d", "i", "d", " ", "n", "o", "t", " ", "m", "a", "t", "c", "h", " ", "a", "n", "y", " ", "v", "a", "r", "i", "a", "n", "t">>)

DeserializeString(v) == IF v[1] = "string" THEN Ok(v[2]) ELSE Err("invalid_type", <<>>)

\* EffectVisitor::visit_str behind deserialize_str
DeserializeEffect(v) ==
    IF v[1] # "string" THEN Err("invalid_type", <<>>)
    ELSE IF v[2] = <<"A", "l", "l", "o", "w">> THEN Ok("Allow")
    ELSE IF v[2] = <<"D", "e", "n", "y">> THEN Ok("Deny")
    ELSE Err("unknown_variant", v[2])

\* The for loops of ActionVisitor::visit_str over the bytes of a part: a
\* byte that is not alphanumeric (nor, in the action, '*') must be '-' or
\* '_' and be neither the first nor the last byte.
ValidActionPart(part, star) ==
    \A i \in DOMAIN part :
        \/ is_ascii_alphanumeric(part[i])
        \/ star /\ part[i] = "*"
        \/ i > 1 /\ i < Len(part) /\ part[i] \in {"-", "_"}

\* ActionVisitor::visit_str
ActionVisitStr(v) ==
    IF v = <<"*">> THEN Ok(<<"Any">>)
    ELSE IF Len(split(v, ":")) # 2 THEN Err("invalid_value", v)
    ELSE IF BYTE_FF \in Range(v) THEN Err("invalid_value", v)
    ELSE IF ~ValidActionPart(split(v, ":")[1], FALSE) THEN Err("invalid_value", v)
    ELSE IF ~ValidActionPart(split(v, ":")[2], TRUE) THEN Err("invalid_value", v)
    ELSE Ok(<<"Specific", split(v, ":")[1], split(v, ":")[2]>>)

DeserializeAction(v) ==
    IF v[1] = "string" THEN ActionVisitStr(v[2]) ELSE Err("invalid_type", <<>>)

DeserializeActionList(v) == DeserializeSingleOrList(v, DeserializeAction)

\* ResourceVisitor::visit_str behind deserialize_any
DeserializeResource(v) ==
    IF v[1] # "string" THEN Err("invalid_type", <<>>)
    ELSE IF v[2] = <<"*">> THEN Ok(<<"Any">>)
    ELSE Ok(<<"Arn", v[2]>>)

DeserializeResourceList(v) == DeserializeSingleOrList(v, DeserializeResource)

DeserializeStringList(v) == DeserializeSingleOrList(v, DeserializeString)

\* A struct whose fields are all of the type Option<T>: the value of every
\* field that the document gives.
DeserializeOptionFields(found, F(_)) ==
    Collect([field \in DOMAIN found |-> DeserializeOption(found[field], F)])

\* The value of a field of such a struct.
FieldValue(s, field) == IF field \in DOMAIN s THEN s[field] ELSE None

DeserializePrincipalMap(v) ==
    Try(DeserializeStruct(v, PrincipalMapFields), LAMBDA found :
        DeserializeOptionFields(found, DeserializeStringList))

\* PrincipalVisitor: visit_str and visit_map behind deserialize_any
DeserializePrincipal(v) ==
    IF v[1] = "string" THEN
        IF v[2] = <<"*">> THEN Ok(<<"Any">>) ELSE Err("invalid_value", v[2])
    ELSE IF v[1] = "object" THEN
        IF DeserializePrincipalMap(v).ok
        THEN Ok(<<"Specific", DeserializePrincipalMap(v).val>>)
        ELSE Err("invalid_value", <<"m", "a", "p">>)
    ELSE Err("invalid_type", <<>>)

\* HashMap<String, StringList>::deserialize: a key given again replaces
\* the value it had.
RECURSIVE ConditionMapLoop(_, _)
ConditionMapLoop(members, map) ==
    IF members = <<>> THEN Ok(map)
    ELSE Try(DeserializeStringList(Head(members)[2]), LAMBDA list :
             ConditionMapLoop(Tail(members), MapInsert(map, Head(members)[1], list)))

DeserializeConditionMap(v) ==
    IF v[1] = "object" THEN ConditionMapLoop(v[2], EmptyMap)
    ELSE Err("invalid_type", <<>>)

DeserializeCondition(v) ==
    Try(DeserializeStruct(v, ConditionFields), LAMBDA found :
        DeserializeOptionFields(found, DeserializeConditionMap))

DeserializeStatement(v) ==
    Try(DeserializeStruct(v, StatementFields), LAMBDA found :
    Try(OptionField(found, <<"s", "i", "d">>, DeserializeString), LAMBDA sid :
    Try(RequiredField(found, <<"e", "f", "f", "e", "c", "t">>, DeserializeEffect), LAMBDA effect :
    Try(OptionField(found, <<"a", "c", "t", "i", "o", "n">>, DeserializeActionList), LAMBDA action :
    Try(OptionField(found, <<"n", "o", "t", "_", "a", "c", "t", "i", "o", "n">>, DeserializeActionList), LAMBDA not_action :
    Try(OptionField(found, <<"r", "e", "s", "o", "u", "r", "c", "e">>, DeserializeResourceList), LAMBDA resource :
    Try(OptionField(found, <<"n", "o", "t", "_", "r", "e", "s", "o", "u", "r", "c", "e">>, DeserializeResourceList), LAMBDA not_resource :
    Try(OptionField(found, <<"p", "r", "i", "n", "c", "i", "p", "a", "l">>, DeserializePrincipal), LAMBDA principal :
    Try(OptionField(found, <<"n", "o", "t", "_", "p", "r", "i", "n", "c", "i", "p", "a", "l">>, DeserializePrincipal), LAMBDA not_principal :
    Try(OptionField(found, <<"c", "o", "n", "d", "i", "t", "i", "o", "n">>, DeserializeCondition), LAMBDA condition :
        Ok([sid |-> sid, effect |-> effect, action |-> action, not_action |-> not_action,
            resource |-> resource, not_resource |-> not_resource,
            principal |-> principal, not_principal |-> not_principal,
            condition |-> condition])))))))))))

\* StatementListVisitor: visit_map and visit_seq behind deserialize_any
DeserializeStatementList(v) ==
    IF v[1] = "object" THEN
        IF DeserializeStatement(v).ok THEN Ok(<<"Single", DeserializeStatement(v).val>>)
        ELSE Err("invalid_value", <<"m", "a", "p">>)
    ELSE IF v[1] = "array" THEN
        IF DeserializeVec(v, DeserializeStatement).ok
        THEN Ok(<<"List", DeserializeVec(v, DeserializeStatement).val>>)
        ELSE Err("invalid_value", <<"s", "e", "q", "u", "e", "n", "c", "e">>)
    ELSE Err("invalid_type", <<>>)

\* Policy::from_str of a well-formed JSON text
DeserializePolicy(v) ==
    Try(DeserializeStruct(v, PolicyFields), LAMBDA found :
    Try(OptionField(found, <<"v", "e", "r", "s", "i", "o", "n">>, DeserializeString), LAMBDA version :
    Try(OptionField(found, <<"i", "d">>, DeserializeString), LAMBDA id :
    Try(RequiredField(found, <<"s", "t", "a", "t", "e", "m", "e", "n", "t">>, DeserializeStatementList), LAMBDA statement :
        Ok([version |-> version, id |-> id, statement |-> statement])))))

(***************************************************************************)
(* Serialization.  The PrettyFormatter of display_json! writes the tokens  *)
(* of the value with line breaks and an indentation of four spaces between *)
(* them, so the text is the value modulo whitespace.                       *)
(***************************************************************************)
\* The members of a derived Serialize: the fields in the order of their
\* declaration, without those that skip_serializing_if = Option::is_none
\* leaves out.
SerializeFields(fields, s, F(_)) ==
    LET given == SelectSeq(fields, LAMBDA f : FieldValue(s, f[1]) # None) IN
    JObj([i \in DOMAIN given |-> <<given[i][2], F(s[given[i][1]][1])>>])

SerializeVec(list, F(_)) == JArr([i \in DOMAIN list |-> F(list[i])])

\* Serialize of an untagged enum with the variants Single and List
SerializeSingleOrList(l, F(_)) ==
    IF l[1] = "Single" THEN F(l[2]) ELSE SerializeVec(l[2], F)

SerializeStringList(l) == SerializeSingleOrList(l, JStr)

\* impl Serialize for Action
SerializeAction(a) ==
    IF a[1] = "Any" THEN JStr(<<"*">>) ELSE JStr(a[2] \o <<":">> \o a[3])

SerializeActionList(l) == SerializeSingleOrList(l, SerializeAction)

\* impl Serialize for Resource
SerializeResource(r) == IF r[1] = "Any" THEN JStr(<<"*">>) ELSE JStr(r[2])

SerializeResourceList(l) == SerializeSingleOrList(l, SerializeResource)

SerializePrincipalMap(pm) == SerializeFields(PrincipalMapFields, pm, SerializeStringList)

\* impl Serialize for Principal
SerializePrincipal(p) ==
    IF p[1] = "Any" THEN JStr(<<"*">>) ELSE SerializePrincipalMap(p[2])

\* Serialize of a HashMap: its entries in the order of its iterator, which
\* is the order, order, of the hasher over the keys.
SerializeConditionMap(map, order) ==
    LET keys == SelectSeq(order, LAMBDA k : k \in DOMAIN map) IN
    JObj([i \in DOMAIN keys |-> <<keys[i], SerializeStringList(map[keys[i]])>>])

SerializeCondition(c, order) ==
    SerializeFields(ConditionFields, c, LAMBDA map : SerializeConditionMap(map, order))

\* The members of a struct that are given.
Members(pairs) ==
    LET given == SelectSeq(pairs, LAMBDA p : p[2] # None) IN
    JObj([i \in DOMAIN given |-> <<given[i][1], given[i][2][1]>>])

\* Option<T>::map
OptionMap(o, F(_)) == IF o = None THEN None ELSE Some(F(o[1]))

SerializeStatement(st, order) ==
    Members(<<
        <<<<"S", "i", "d">>, OptionMap(st.sid, JStr)>>,
        <<<<"E", "f", "f", "e", "c", "t">>, Some(JStr(IF st.effect = "Allow" THEN <<"A", "l", "l", "o", "w">> ELSE <<"D", "e", "n", "y">>))>>,
        <<<<"A", "c", "t", "i", "o", "n">>, OptionMap(st.action, SerializeActionList)>>,
        <<<<"N", "o", "t", "A", "c", "t", "i", "o", "n">>, OptionMap(st.not_action, SerializeActionList)>>,
        <<<<"R", "e", "s", "o", "u", "r", "c", "e">>, OptionMap(st.resource, SerializeResourceList)>>,
        <<<<"N", "o", "t", "R", "e", "s", "o", "u", "r", "c", "e">>, OptionMap(st.not_resource, SerializeResourceList)>>,
        <<<<"P", "r", "i", "n", "c", "i", "p", "a", "l">>, OptionMap(st.principal, SerializePrincipal)>>,
        <<<<"N", "o", "t", "P", "r", "i", "n", "c", "i", "p", "a", "l">>, OptionMap(st.not_principal, SerializePrincipal)>>,
        <<<<"C", "o", "n", "d", "i", "t", "i", "o", "n">>, OptionMap(st.condition, LAMBDA c : SerializeCondition(c, order))>> >>)

\* impl Serialize for StatementList
SerializeStatementList(l, order) ==
    SerializeSingleOrList(l, LAMBDA st : SerializeStatement(st, order))

\* Policy::to_string
SerializePolicy(p, order) ==
    Members(<<
        <<<<"V", "e", "r", "s", "i", "o", "n">>, OptionMap(p.version, JStr)>>,
        <<<<"I", "d">>, OptionMap(p.id, JStr)>>,
        <<<<"S", "t", "a", "t", "e", "m", "e", "n", "t">>, Some(SerializeStatementList(p.statement, order))>> >>)

(***************************************************************************)
(* The policy documents of the model.                                      *)
(***************************************************************************)
\* The strings given as an Action: every string of at most MaxActionLen
\* characters over ActionAlphabet, and some of the actions of AWS.
MaxActionLen == 6
ActionAlphabet == {"a", "-", "_", "*", ":"}
ActionStrings ==
    SeqsUpTo(ActionAlphabet, MaxActionLen)
        \cup {<<"e", "c", "2", ":", "R", "u", "n", "I", "n", "s", "t", "a", "n", "c", "e", "s">>, <<"e", "c", "s", ":", "*">>, <<"s", "3", ":", "G", "e", "t", "*">>, <<"a", "_", "b", "-", "1", ":", "C", "-", "d", "_", "2">>, <<"1", ":", "2">>, <<"e", "c", "2", ":">>, <<"e", "c", "2">>}

StatementOf(members) == JObj(<<<<<<"E", "f", "f", "e", "c", "t">>, JStr(<<"A", "l", "l", "o", "w">>)>>>> \o members)
PolicyOf(statement) == JObj(<<<<<<"S", "t", "a", "t", "e", "m", "e", "n", "t">>, statement>>>>)

ActionDocuments ==
    {PolicyOf(StatementOf(<<<<<<"A", "c", "t", "i", "o", "n">>, JStr(s)>>>>)) : s \in ActionStrings}

\* The names given as a condition operator: the names the code declares,
\* the names of the AWS operators with and without IfExists, and names
\* that are neither.
AwsOperators == {
    <<"S", "t", "r", "i", "n", "g", "E", "q", "u", "a", "l", "s">>, <<"S", "t", "r", "i", "n", "g", "N", "o", "t", "E", "q", "u", "a", "l", "s">>, <<"S", "t", "r", "i", "n", "g", "E", "q", "u", "a", "l", "s", "I", "g", "n", "o", "r", "e", "C", "a", "s", "e">>,
    <<"S", "t", "r", "i", "n", "g", "N", "o", "t", "E", "q", "u", "a", "l", "s", "I", "g", "n", "o", "r", "e", "C", "a", "s", "e">>, <<"S", "t", "r", "i", "n", "g", "L", "i", "k", "e">>, <<"S", "t", "r", "i", "n", "g", "N", "o", "t", "L", "i", "k", "e">>,
    <<"N", "u", "m", "e", "r", "i", "c", "E", "q", "u", "a", "l", "s">>, <<"N", "u", "m", "e", "r", "i", "c", "N", "o", "t", "E", "q", "u", "a", "l", "s">>, <<"N", "u", "m", "e", "r", "i", "c", "L", "e", "s", "s", "T", "h", "a", "n">>,
    <<"N", "u", "m", "e", "r", "i", "c", "L", "e", "s", "s", "T", "h", "a", "n", "E", "q", "u", "a", "l", "s">>, <<"N", "u", "m", "e", "r", "i", "c", "G", "r", "e", "a", "t", "e", "r", "T", "h", "a", "n">>, <<"N", "u", "m", "e", "r", "i", "c", "G", "r", "e", "a", "t", "e", "r", "T", "h", "a", "n", "E", "q", "u", "a", "l", "s">>,
    <<"D", "a", "t", "e", "E", "q", "u", "a", "l", "s">>, <<"D", "a", "t", "e", "N", "o", "t", "E", "q", "u", "a", "l", "s">>, <<"D", "a", "t", "e", "L", "e", "s", "s", "T", "h", "a", "n">>, <<"D", "a", "t", "e", "L", "e", "s", "s", "T", "h", "a", "n", "E", "q", "u", "a", "l", "s">>,
    <<"D", "a", "t", "e", "G", "r", "e", "a", "t", "e", "r", "T", "h", "a", "n">>, <<"D", "a", "t", "e", "G", "r", "e", "a", "t", "e", "r", "T", "h", "a", "n", "E", "q", "u", "a", "l", "s">>, <<"B", "o", "o", "l">>, <<"B", "i", "n", "a", "r", "y", "E", "q", "u", "a", "l", "s">>,
    <<"I", "p", "A", "d", "d", "r", "e", "s", "s">>, <<"N", "o", "t", "I", "p", "A", "d", "d", "r", "e", "s", "s">>, <<"A", "r", "n", "E", "q", "u", "a", "l", "s">>, <<"A", "r", "n", "N", "o", "t", "E", "q", "u", "a", "l", "s">>, <<"A", "r", "n", "L", "i", "k", "e">>,
    <<"A", "r", "n", "N", "o", "t", "L", "i", "k", "e">>, <<"N", "u", "l", "l">>}
OtherOperators == {<<"F", "o", "o">>, <<"s", "t", "r", "i", "n", "g", "E", "q", "u", "a", "l", "s">>, <<"S", "t", "r", "i", "n", "g", "E", "q", "u", "a", "l">>, <<"I", "f", "E", "x", "i", "s", "t", "s">>}
OperatorNames ==
    {ConditionFields[i][2] : i \in DOMAIN ConditionFields}
        \cup AwsOperators \cup {op \o <<"I", "f", "E", "x", "i", "s", "t", "s">> : op \in AwsOperators}
        \cup OtherOperators

ConditionKeyNames == {<<"k", "1">>, <<"k", "2">>}
OneKey == JObj(<<<<<<"k", "1">>, JStr(<<"v">>)>>>>)
TwoKeys == JObj(<<<<<<"k", "1">>, JStr(<<"v">>)>>, <<<<"k", "2">>, JArr(<<JStr(<<"v">>), JStr(<<"w">>)>>)>>>>)
SameKeyTwice == JObj(<<<<<<"k", "1">>, JStr(<<"v">>)>>, <<<<"k", "1">>, JStr(<<"w">>)>>>>)

ConditionDocuments ==
    {PolicyOf(StatementOf(<<<<<<"C", "o", "n", "d", "i", "t", "i", "o", "n">>, JObj(<<<<op, OneKey>>>>)>>>>)) : op \in OperatorNames}
    \cup {PolicyOf(StatementOf(<<<<<<"C", "o", "n", "d", "i", "t", "i", "o", "n">>, JObj(<<<<<<"S", "t", "r", "i", "n", "g", "E", "q", "u", "a", "l", "s">>, map>>>>)>>>>)) :
            map \in {TwoKeys, SameKeyTwice, JObj(<<>>)}}
    \cup {PolicyOf(StatementOf(<<<<<<"C", "o", "n", "d", "i", "t", "i", "o", "n">>, JObj(<<<<<<"F", "o", "o">>, OneKey>>, <<<<"B", "o", "o", "l">>, OneKey>>>>)>>>>)),
          PolicyOf(StatementOf(<<<<<<"C", "o", "n", "d", "i", "t", "i", "o", "n">>, JObj(<<<<<<"B", "o", "o", "l">>, OneKey>>, <<<<"A", "r", "n", "L", "i", "k", "e">>, OneKey>>>>)>>>>)),
          PolicyOf(StatementOf(<<<<<<"C", "o", "n", "d", "i", "t", "i", "o", "n">>, JObj(<<<<<<"A", "r", "n", "L", "i", "k", "e">>, OneKey>>, <<<<"B", "o", "o", "l">>, OneKey>>>>)>>>>)),
          PolicyOf(StatementOf(<<<<<<"C", "o", "n", "d", "i", "t", "i", "o", "n">>, JObj(<<<<<<"B", "o", "o", "l">>, OneKey>>, <<<<"B", "o", "o", "l">>, OneKey>>>>)>>>>)),
          PolicyOf(StatementOf(<<<<<<"C", "o", "n", "d", "i", "t", "i", "o", "n">>, JObj(<<>>)>>>>)),
          PolicyOf(StatementOf(<<<<<<"C", "o", "n", "d", "i", "t", "i", "o", "n">>, JStr(<<"B", "o", "o", "l">>)>>>>))}

\* Documents whose members are in the order of the declarations: a single
\* value or a list for Action, Resource and the principals, a single
\* Statement or a list, with and without Version.
ActionValues == {
    JStr(<<"e", "c", "2", ":", "R", "u", "n">>), JArr(<<JStr(<<"e", "c", "2", ":", "R", "u", "n">>)>>), JArr(<<JStr(<<"s", "3", ":", "G", "e", "t", "*">>), JStr(<<"*">>)>>)}
ResourceValues == {JStr(<<"*">>), JArr(<<JStr(<<"a", "r", "n", ":", "a", "w", "s", ":", "s", "3", ":", ":", ":", "b">>)>>)}
PrincipalValues == {
    JStr(<<"*">>),
    JObj(<<<<<<"A", "W", "S">>, JStr(<<"1", "2", "3">>)>>>>),
    JObj(<<<<<<"A", "W", "S">>, JArr(<<JStr(<<"1", "2", "3">>), JStr(<<"4", "5", "6">>)>>)>>, <<<<"S", "e", "r", "v", "i", "c", "e">>, JArr(<<JStr(<<"e", "c", "2">>)>>)>>>>)}

OrderedStatements ==
    {StatementOf(<<<<<<"A", "c", "t", "i", "o", "n">>, a>>, <<<<"R", "e", "s", "o", "u", "r", "c", "e">>, r>>>>) : a \in ActionValues, r \in ResourceValues}
    \cup {StatementOf(<<<<<<"A", "c", "t", "i", "o", "n">>, a>>, <<<<"P", "r", "i", "n", "c", "i", "p", "a", "l">>, p>>>>) : a \in ActionValues, p \in PrincipalValues}
    \cup {JObj(<<<<<<"S", "i", "d">>, JStr(<<"s", "1">>)>>, <<<<"E", "f", "f", "e", "c", "t">>, JStr(<<"D", "e", "n", "y">>)>>,
                 <<<<"N", "o", "t", "A", "c", "t", "i", "o", "n">>, a>>, <<<<"N", "o", "t", "R", "e", "s", "o", "u", "r", "c", "e">>, r>>, <<<<"N", "o", "t", "P", "r", "i", "n", "c", "i", "p", "a", "l">>, p>>>>) :
            a \in ActionValues, r \in ResourceValues, p \in PrincipalValues}

DenyAll == JObj(<<<<<<"E", "f", "f", "e", "c", "t">>, JStr(<<"D", "e", "n", "y">>)>>, <<<<"A", "c", "t", "i", "o", "n">>, JStr(<<"*">>)>>>>)

StatementValues ==
    OrderedStatements
    \cup {JArr(<<st>>) : st \in OrderedStatements}
    \cup {JArr(<<st, DenyAll>>) : st \in OrderedStatements}
    \cup {JArr(<<>>)}

OrderedDocuments ==
    {PolicyOf(statement) : statement \in StatementValues}
    \cup {JObj(<<<<<<"V", "e", "r", "s", "i", "o", "n">>, JStr(<<"2", "0", "1", "2", "-", "1", "0", "-", "1", "7">>)>>, <<<<"S", "t", "a", "t", "e", "m", "e", "n", "t">>, statement>>>>) :
            statement \in StatementValues}
    \cup {JObj(<<<<<<"V", "e", "r", "s", "i", "o", "n">>, JStr(<<"2", "0", "1", "2", "-", "1", "0", "-", "1", "7">>)>>, <<<<"I", "d">>, JStr(<<"p", "1">>)>>,
                 <<<<"S", "t", "a", "t", "e", "m", "e", "n", "t">>, DenyAll>>>>)}

\* Documents that are written otherwise: members in another order, members
\* that name no field, null, a field given twice, a struct as an array, and
\* documents that are no policy.
OtherDocuments == {
    JObj(<<<<<<"S", "t", "a", "t", "e", "m", "e", "n", "t">>, DenyAll>>, <<<<"V", "e", "r", "s", "i", "o", "n">>, JStr(<<"2", "0", "1", "2", "-", "1", "0", "-", "1", "7">>)>>>>),
    PolicyOf(JObj(<<<<<<"A", "c", "t", "i", "o", "n">>, JStr(<<"*">>)>>, <<<<"E", "f", "f", "e", "c", "t">>, JStr(<<"D", "e", "n", "y">>)>>>>)),
    JObj(<<<<<<"F", "o", "o">>, JStr(<<"x">>)>>, <<<<"S", "t", "a", "t", "e", "m", "e", "n", "t">>, DenyAll>>>>),
    PolicyOf(JObj(<<<<<<"E", "f", "f", "e", "c", "t">>, JStr(<<"D", "e", "n", "y">>)>>, <<<<"F", "o", "o">>, JArr(<<>>)>>>>)),
    JObj(<<<<<<"I", "d">>, JNull>>, <<<<"S", "t", "a", "t", "e", "m", "e", "n", "t">>, DenyAll>>>>),
    PolicyOf(JObj(<<<<<<"E", "f", "f", "e", "c", "t">>, JStr(<<"D", "e", "n", "y">>)>>, <<<<"A", "c", "t", "i", "o", "n">>, JNull>>>>)),
    PolicyOf(StatementOf(<<<<<<"P", "r", "i", "n", "c", "i", "p", "a", "l">>, JObj(<<<<<<"A", "W", "S">>, JNull>>>>)>>>>)),
    PolicyOf(StatementOf(<<<<<<"P", "r", "i", "n", "c", "i", "p", "a", "l">>, JObj(<<<<<<"F", "o", "o">>, JStr(<<"x">>)>>>>)>>>>)),
    PolicyOf(StatementOf(<<<<<<"P", "r", "i", "n", "c", "i", "p", "a", "l">>, JStr(<<"1", "2", "3">>)>>>>)),
    PolicyOf(StatementOf(<<<<<<"P", "r", "i", "n", "c", "i", "p", "a", "l">>, JArr(<<JStr(<<"*">>)>>)>>>>)),
    JObj(<<<<<<"S", "t", "a", "t", "e", "m", "e", "n", "t">>, DenyAll>>, <<<<"S", "t", "a", "t", "e", "m", "e", "n", "t">>, DenyAll>>>>),
    PolicyOf(JObj(<<<<<<"E", "f", "f", "e", "c", "t">>, JStr(<<"D", "e", "n", "y">>)>>, <<<<"E", "f", "f", "e", "c", "t">>, JStr(<<"D", "e", "n", "y">>)>>>>)),
    JArr(<<JStr(<<"2", "0", "1", "2", "-", "1", "0", "-", "1", "7">>), JNull, DenyAll>>),
    JArr(<<DenyAll>>),
    PolicyOf(JArr(<<JArr(<<JNull, JStr(<<"D", "e", "n", "y">>), JStr(<<"*">>), JNull, JNull, JNull, JNull, JNull, JNull>>)>>)),
    PolicyOf(JObj(<<<<<<"E", "f", "f", "e", "c", "t">>, JStr(<<"a", "l", "l", "o", "w">>)>>>>)),
    PolicyOf(JObj(<<<<<<"A", "c", "t", "i", "o", "n">>, JStr(<<"*">>)>>>>)),
    PolicyOf(StatementOf(<<<<<<"R", "e", "s", "o", "u", "r", "c", "e">>, JArr(<<JStr(<<"*">>), JObj(<<>>)>>)>>>>)),
    PolicyOf(JStr(<<"A", "l", "l", "o", "w">>)),
    PolicyOf(JNull),
    JObj(<<<<<<"V", "e", "r", "s", "i", "o", "n">>, JStr(<<"2", "0", "1", "2", "-", "1", "0", "-", "1", "7">>)>>>>),
    JObj(<<>>),
    JStr(<<"S", "t", "a", "t", "e", "m", "e", "n", "t">>),
    JNull}

Documents == ActionDocuments \cup ConditionDocuments \cup OrderedDocuments \cup OtherDocuments

(***************************************************************************)
(* The calls of the policy parser: Policy::from_str of a document and      *)
(* to_string of the policy it gave.                                        *)
(***************************************************************************)
\* No request is being verified.
SigV4Idle ==
    /\ request = None /\ server_timestamp = None /\ allowed_mismatch = None
    /\ store_secret = None /\ pc = "idle" /\ resolver_calls = <<>>
    /\ access_key = None /\ session_token = None /\ secret_key = None
    /\ expected_sig = None /\ verify_result = None /\ ret = None

PolicyInit ==
    /\ document \in {Some(d) : d \in Documents}
    /\ policy = None
    /\ policy_str = None
    /\ SigV4Idle
    /\ ResolverIdle
    /\ TlsIdle

\* from_str_json!(Policy)
PolicyFromStr ==
    /\ policy = None
    /\ policy' = Some(DeserializePolicy(document[1]))
    /\ UNCHANGED <<document, policy_str>>
    /\ UNCHANGED <<sigv4_vars, resolver_vars, tls_vars>>

\* display_json!(Policy)
PolicyToString ==
    /\ policy # None
    /\ policy[1].ok
    /\ policy_str = None
    /\ \E order \in Orderings(ConditionKeyNames) :
          policy_str' = Some(SerializePolicy(policy[1].val, order))
    /\ UNCHANGED <<document, policy>>
    /\ UNCHANGED <<sigv4_vars, resolver_vars, tls_vars>>

PolicyNext == PolicyFromStr \/ PolicyToString

PolicySpec == PolicyInit /\ [][PolicyNext]_vars

\* C24: for every document that Policy::from_str parses, to_string of the
\* policy gives the document back, modulo whitespace: the same members
\* with the same values in the same order, a single Statement, Action,
\* Resource or principal as a single value and a list as a list.
C24_RoundTrip == policy_str # None => policy_str = document

\* The string that a document of ActionDocuments gives as its Action.
ActionGiven(d) ==
    IF /\ d[1] = "object" /\ Len(d[2]) = 1 /\ d[2][1][2][1] = "object"
       /\ Len(d[2][1][2][2]) = 2 /\ d[2][1][2][2][2][1] = <<"A", "c", "t", "i", "o", "n">>
       /\ d[2][1][2][2][2][2][1] = "string"
    THEN Some(d[2][1][2][2][2][2][2]) ELSE None

\* [A-Za-z0-9][A-Za-z0-9_-]*[A-Za-z0-9] and, with star, the same with '*'
\* in each of the three classes.
MatchesPart(part, star) ==
    /\ Len(part) >= 2
    /\ \A i \in DOMAIN part :
          \/ is_ascii_alphanumeric(part[i])
          \/ star /\ part[i] = "*"
          \/ i > 1 /\ i < Len(part) /\ part[i] \in {"-", "_"}

MatchesActionPattern(s) ==
    /\ Len(split(s, ":")) = 2
    /\ MatchesPart(split(s, ":")[1], FALSE)
    /\ MatchesPart(split(s, ":")[2], TRUE)

\* C25: a policy whose Action is the string s parses exactly when s is "*",
\* which gives Action::Any, or s matches
\* ^[A-Za-z0-9][A-Za-z0-9_-]*[A-Za-z0-9]:[A-Za-z0-9*][A-Za-z0-9_*-]*[A-Za-z0-9*]$,
\* which gives Action::Specific with the two parts of s; with every other
\* string the parse fails.
C25_ActionPattern ==
    (policy # None /\ ActionGiven(document[1]) # None) =>
        LET s == ActionGiven(document[1])[1] IN
        /\ policy[1].ok <=> (s = <<"*">> \/ MatchesActionPattern(s))
        /\ policy[1].ok =>
              policy[1].val.statement[2].action =
                  Some(<<"Single", IF s = <<"*">> THEN <<"Any">>
                                   ELSE <<"Specific", split(s, ":")[1], split(s, ":")[2]>> >>)

\* The operator name of a document whose Condition has one operator, with
\* the keys and values of OneKey.
OperatorGiven(d) ==
    IF /\ d[1] = "object" /\ Len(d[2]) = 1 /\ d[2][1][2][1] = "object"
       /\ Len(d[2][1][2][2]) = 2 /\ d[2][1][2][2][2][1] = <<"C", "o", "n", "d", "i", "t", "i", "o", "n">>
       /\ d[2][1][2][2][2][2][1] = "object" /\ Len(d[2][1][2][2][2][2][2]) = 1
       /\ d[2][1][2][2][2][2][2][1][2] = OneKey
    THEN Some(d[2][1][2][2][2][2][2][1][1]) ELSE None

\* The known operator names: the AWS operators, and each with IfExists.
KnownOperators == AwsOperators \cup {op \o <<"I", "f", "E", "x", "i", "s", "t", "s">> : op \in AwsOperators}

\* C26: a Condition with one of the known operator names (the AWS operators
\* and each of them with the suffix IfExists) is parsed with that operator
\* set and to_string gives it back; a Condition with another operator name
\* makes the parse fail.
C26_KnownOperators ==
    (policy # None /\ OperatorGiven(document[1]) # None) =>
        IF OperatorGiven(document[1])[1] \in KnownOperators
        THEN /\ policy[1].ok
             /\ \E field \in DOMAIN policy[1].val.statement[2].condition[1] :
                   policy[1].val.statement[2].condition[1][field] # None
             /\ policy_str # None => policy_str = document
        ELSE ~policy[1].ok

(***************************************************************************)
(* scratchstack-get-signing-key-direct: GetSigningKeyFromDatabase::call.   *)
(* An access key is a String, a sequence of characters of which each takes *)
(* one or more bytes; len and the slices of the code count bytes.          *)
(***************************************************************************)
\* A character of two bytes.
E_ACUTE == "<C3><A9>"

\* char::len_utf8
len_utf8(c) == IF c = E_ACUTE THEN 2 ELSE 1

\* String::len: the number of bytes.
RECURSIVE ByteLen(_)
ByteLen(s) == IF s = <<>> THEN 0 ELSE len_utf8(Head(s)) + ByteLen(Tail(s))

\* The number of characters before the byte offset index, None when the
\* offset is inside a character or behind the end (str::is_char_boundary).
CharsBefore(s, index) ==
    LET at == {k \in 0..Len(s) : ByteLen(SubSeq(s, 1, k)) = index} IN
    IF at = {} THEN None ELSE Some(CHOOSE k \in at : TRUE)

\* &s[..index] and &s[index..]: a slice that does not end at a character
\* boundary panics.
SliceTo(s, index) ==
    IF CharsBefore(s, index) = None THEN Panic(<<"b", "y", "t", "e", " ", "i", "n", "d", "e", "x", " ", "i", "s", " ", "n", "o", "t", " ", "a", " ", "c", "h", "a", "r", " ", "b", "o", "u", "n", "d", "a", "r", "y">>)
    ELSE Ok(SubSeq(s, 1, CharsBefore(s, index)[1]))

SliceFrom(s, index) ==
    IF CharsBefore(s, index) = None THEN Panic(<<"b", "y", "t", "e", " ", "i", "n", "d", "e", "x", " ", "i", "s", " ", "n", "o", "t", " ", "a", " ", "c", "h", "a", "r", " ", "b", "o", "u", "n", "d", "a", "r", "y">>)
    ELSE Ok(SubSeq(s, CharsBefore(s, index)[1] + 1, Len(s)))

MSG_ACCESS_KEY_PROVIDED_DOES_NOT_EXIST ==
    <<"T", "h", "e", " ", "A", "W", "S", " ", "a", "c", "c", "e", "s", "s", " ", "k", "e", "y", " ", "p", "r", "o", "v", "i", "d", "e", "d", " ", "d", "o", "e", "s", " ", "n", "o", "t", " ", "e", "x", "i", "s", "t", " ", "i", "n", " ", "o", "u", "r", " ", "r", "e", "c", "o", "r", "d", "s", ".">>

InvalidClientTokenId == Err("InvalidClientTokenId", MSG_ACCESS_KEY_PROVIDED_DOES_NOT_EXIST)

\* The rows of iam_user_credential that the query selects: those with the
\* access_key_id and active = true (the inner join gives each its user).
QueryRows(rows, access_key_id) ==
    {row \in rows : row.access_key_id = access_key_id /\ row.active}

\* The else branch of results.len() == 0 for the first row of the results:
\* User::new of the user of the row, then the response.
ResponseOf(row) ==
    IF row.user_valid
    THEN Ok([user_id |-> row.user_id, signing_key |-> <<"to_ksigning", row.secret_key>>])
    ELSE Err("PrincipalError", row.user_id)

(***************************************************************************)
(* The access keys and tables of the model.                                *)
(***************************************************************************)
IdActive == <<"A", "A", "A", "A", "A", "A", "A", "A", "A", "A", "A", "A", "A", "A", "A", "1">>
IdInactive == <<"A", "A", "A", "A", "A", "A", "A", "A", "A", "A", "A", "A", "A", "A", "A", "2">>
IdNoRow == <<"A", "A", "A", "A", "A", "A", "A", "A", "A", "A", "A", "A", "A", "A", "A", "3">>
IdBadUser == <<"A", "A", "A", "A", "A", "A", "A", "A", "A", "A", "A", "A", "A", "A", "A", "4">>
IdTwoByte == <<"A", "A", "A", "A", "A", "A", "A", "A", "A", "A", "A", "A", "A", "A">> \o <<E_ACUTE>>

AccessKeys == {
    <<"A", "K", "I", "A">> \o IdActive, <<"A", "K", "I", "A">> \o IdInactive, <<"A", "K", "I", "A">> \o IdNoRow, <<"A", "K", "I", "A">> \o IdBadUser,
    <<"A", "S", "I", "A">> \o IdActive, <<"a", "k", "i", "a">> \o IdActive, IdActive \o <<"A", "K", "I", "A">>,
    <<"A", "K", "I", "A", "A", "A", "A", "A", "A", "A", "A", "A", "A", "A", "A", "A", "A", "A", "1">>, <<"A", "K", "I", "A">>, <<"A", "K", "I">>, <<>>,
    <<"A", "K", "I", "A">> \o IdTwoByte,
    <<"A", "K", "I">> \o <<E_ACUTE>> \o IdActive,
    <<"A", "K">> \o <<E_ACUTE>> \o IdActive,
    <<E_ACUTE, E_ACUTE>> \o IdActive,
    <<E_ACUTE, E_ACUTE, E_ACUTE, E_ACUTE, E_ACUTE, E_ACUTE, E_ACUTE, E_ACUTE, E_ACUTE, E_ACUTE>>}

CredentialRow(id, active, user_id, user_valid) ==
    [access_key_id |-> id, active |-> active, user_id |-> user_id,
     user_valid |-> user_valid, secret_key |-> <<"s", "e", "c", "r", "e", "t", "-">> \o user_id]

CredentialRows == {
    CredentialRow(IdActive, TRUE, <<"u", "1">>, TRUE),
    CredentialRow(IdInactive, FALSE, <<"u", "2">>, TRUE),
    CredentialRow(IdBadUser, TRUE, <<"u", "3">>, FALSE),
    CredentialRow(IdTwoByte, TRUE, <<"u", "4">>, TRUE),
    CredentialRow(<<"A", "A", "A", "A", "A", "A", "A", "A", "A", "A", "A", "A", "A", "A", "1">>, TRUE, <<"u", "5">>, TRUE)}

(***************************************************************************)
(* GetSigningKeyFromDatabase::call as the steps of its future.             *)
(***************************************************************************)
ResolverInit ==
    /\ req_access_key \in {Some(k) : k \in AccessKeys}
    /\ iam_user_credential \in SUBSET CredentialRows
    /\ call_pc = "call"
    /\ db = None
    /\ call_result = None
    /\ SigV4Idle
    /\ AspenIdle
    /\ TlsIdle

\* The future returns result.
CallReturn(result) ==
    /\ call_pc' = "done"
    /\ call_result' = Some(result)

\* lines 106-111: the length test
CallCheckLength ==
    /\ call_pc = "call"
    /\ IF ByteLen(req_access_key[1]) < 20
       THEN CallReturn(InvalidClientTokenId)
       ELSE call_pc' = "pool_get" /\ UNCHANGED call_result
    /\ UNCHANGED <<req_access_key, iam_user_credential, db>>
    /\ UNCHANGED <<sigv4_vars, aspen_vars, tls_vars>>

\* line 113: pool.get()?, which gives a connection or the error of the pool
CallPoolGet ==
    /\ call_pc = "pool_get"
    /\ \/ db' = Some("connection") /\ call_pc' = "access_prefix" /\ UNCHANGED call_result
       \/ CallReturn(Err("PoolError", <<>>)) /\ UNCHANGED db
    /\ UNCHANGED <<req_access_key, iam_user_credential>>
    /\ UNCHANGED <<sigv4_vars, aspen_vars, tls_vars>>

\* lines 116-118 and 158-160: the prefix and the match on it
CallMatchPrefix ==
    /\ call_pc = "access_prefix"
    /\ \E access_prefix \in {SliceTo(req_access_key[1], 4)} :
          IF ~access_prefix.ok THEN CallReturn(access_prefix)
          ELSE IF access_prefix.val = <<"A", "K", "I", "A">>
               THEN call_pc' = "load" /\ UNCHANGED call_result
               ELSE CallReturn(InvalidClientTokenId)
    /\ UNCHANGED <<req_access_key, iam_user_credential, db>>
    /\ UNCHANGED <<sigv4_vars, aspen_vars, tls_vars>>

\* lines 119-155: query.load(&mut db)?, which gives the rows in some order
\* or the error of the database, and the response for the first row
CallLoad ==
    /\ call_pc = "load"
    /\ \/ CallReturn(Err("DatabaseError", <<>>))
       \/ \E results \in Orderings(QueryRows(iam_user_credential, SliceFrom(req_access_key[1], 4).val)) :
             IF Len(results) = 0 THEN CallReturn(InvalidClientTokenId)
             ELSE CallReturn(ResponseOf(results[1]))
    /\ UNCHANGED <<req_access_key, iam_user_credential, db>>
    /\ UNCHANGED <<sigv4_vars, aspen_vars, tls_vars>>

ResolverNext == CallCheckLength \/ CallPoolGet \/ CallMatchPrefix \/ CallLoad

ResolverSpec == ResolverInit /\ [][ResolverNext]_vars

\* The key without its first four characters.
WithoutPrefix(key) == SubSeq(key, 5, Len(key))

\* The table has an active credential for the key without its prefix.
ActiveCredential(key) ==
    \E row \in iam_user_credential : row.active /\ row.access_key_id = WithoutPrefix(key)

\* The backing store failed: the pool gave no connection or the query
\* gave an error.
StoreFailed == ~call_result[1].ok /\ call_result[1].kind \in {"PoolError", "DatabaseError"}

\* C27: an access key of fewer than 20 characters, one whose first four
\* characters are not AKIA and one with no active credential row get the
\* unknown-access-key error, unless the backing store failed, and never a
\* signing key; a response is given only for an active credential whose
\* access_key_id is the key without its first four characters; a key that
\* is too short is refused before a connection is taken from the pool.
C27_UnknownAccessKey ==
    call_result # None =>
        LET key == req_access_key[1] IN
        /\ (Len(key) < 20 \/ SubSeq(key, 1, 4) # <<"A", "K", "I", "A">> \/ ~ActiveCredential(key)) =>
              /\ ~call_result[1].ok
              /\ StoreFailed \/ call_result[1] = InvalidClientTokenId
        /\ call_result[1].ok =>
              \E row \in iam_user_credential :
                  /\ row.active /\ row.access_key_id = WithoutPrefix(key)
                  /\ call_result[1].val.user_id = row.user_id
        /\ Len(key) < 20 => db = None

(***************************************************************************)
(* services/iam tls.rs: TlsIncoming, the acceptor that hyper polls for the *)
(* next TLS connection.  handshakes holds, for every Accept future that    *)
(* was made, whether it is pending or has returned Ready; poll_log holds,  *)
(* for every call of poll_accept, what it polled and what it returned.     *)
(***************************************************************************)
MaxPolls == 5

\* What TcpListener::poll_accept and the poll of an Accept future give.
ListenerOutcomes == {"Pending", "Ready_Ok", "Ready_Err"}
HandshakeOutcomes == {"Pending", "Ready_Ok", "Ready_Err"}

\* What the poll of a future that has returned Ready gives: the contract
\* of Future::poll leaves it open (it may panic or stay Pending for ever).
CompletedOutcomes == {"Panic", "Pending"}

\* TlsIncoming::new
TlsInit ==
    /\ tls_stream_accept = None
    /\ handshakes = <<>>
    /\ poll_log = <<>>
    /\ SigV4Idle
    /\ AspenIdle
    /\ ResolverIdle

\* The call polled the listener or not, the handshake accept or none, which
\* had completed before or not, and returned returned.
Polled(listener, accept, completed, returned) ==
    [listener |-> listener, handshake |-> accept, completed |-> completed, returned |-> returned]

\* lines 48-53: the poll of the Accept future in slot with the outcome t.
PollHandshake(listener, slot, started, t) ==
    /\ t \in (IF started[slot[1]] = "completed" THEN CompletedOutcomes ELSE HandshakeOutcomes)
    /\ tls_stream_accept' = slot
    /\ handshakes' = IF t \in {"Ready_Ok", "Ready_Err"}
                     THEN [started EXCEPT ![slot[1]] = "completed"] ELSE started
    /\ poll_log' = Append(poll_log,
            Polled(listener, slot, started[slot[1]] = "completed",
                   IF t = "Ready_Ok" THEN "Ready_Stream"
                   ELSE IF t = "Ready_Err" THEN "Ready_HandshakeErr" ELSE t))

\* TlsIncoming::poll_accept, with the outcome l of the listener and t of
\* the handshake when it polls them.
PollAccept ==
    /\ Len(poll_log) < MaxPolls
    /\ IF poll_log = <<>> THEN TRUE ELSE poll_log[Len(poll_log)].returned # "Panic"
    /\ \E l \in ListenerOutcomes, t \in HandshakeOutcomes \cup CompletedOutcomes :
          IF tls_stream_accept = None THEN
              IF l = "Ready_Ok" THEN
                  PollHandshake(TRUE, Some(Len(handshakes) + 1), Append(handshakes, "pending"), t)
              ELSE
                  /\ poll_log' = Append(poll_log,
                        Polled(TRUE, None, FALSE, IF l = "Pending" THEN "Pending" ELSE "Ready_ListenerErr"))
                  /\ UNCHANGED <<tls_stream_accept, handshakes>>
          ELSE PollHandshake(FALSE, tls_stream_accept, handshakes, t)
    /\ UNCHANGED <<sigv4_vars, aspen_vars, resolver_vars>>

TlsNext == PollAccept

TlsSpec == TlsInit /\ [][TlsNext]_vars

\* The handshakes that are pending.
PendingHandshakes == {h \in DOMAIN handshakes : handshakes[h] = "pending"}

\* C30: at most one handshake is pending; a call polls the listener only
\* when no handshake is in the slot; after a call that returned Ready with
\* the result of a handshake the slot is empty, so that the next call
\* polls the listener; no call polls a handshake that has completed.
C30_OnePendingHandshake ==
    /\ Cardinality(PendingHandshakes) <= 1
    /\ \A i \in DOMAIN poll_log :
          /\ poll_log[i].listener =>
                (i = 1 \/ poll_log[i - 1].handshake = None
                       \/ poll_log[i - 1].returned \in {"Ready_Stream", "Ready_HandshakeErr"})
          /\ (i > 1 /\ poll_log[i - 1].returned \in {"Ready_Stream", "Ready_HandshakeErr"}) =>
                poll_log[i].listener
          /\ ~poll_log[i].completed
    /\ (poll_log # <<>> /\ poll_log[Len(poll_log)].returned \in {"Ready_Stream", "Ready_HandshakeErr"}) =>
          tls_stream_accept = None
====
